---- MODULE Spec2Model ----
(***************************************************************************)
(* Update driver of the AMCL node (amcl_doris/src/amcl_node.cpp): the two  *)
(* sensor gates (laser, camera), the laser registry, the services and the  *)
(* publication step.  The particle filter library behind pf_* and the      *)
(* sensor models behind UpdateAction/UpdateSensor are seen through the     *)
(* calls the node makes on them.                                           *)
(*                                                                         *)
(* Units: lengths in steps of 0.2 m, angles in steps of pi/AngUnits.       *)
(***************************************************************************)
EXTENDS Integers, Sequences, FiniteSets, TLC

\* ---------------------------------------------------------------- bounds
MaxPos == 2
MaxSteps == 3
MaxRare == 1

\* ------------------------------------------------------ program constants
\* lengths are counted in steps of 0.2 m, angles in steps of pi/6
AngUnits == 6
d_thresh_ == 1
a_thresh_ == 1
resample_interval_ == 2
transform_tolerance_ == 1
tf_broadcast_ == TRUE
first_map_only_ == FALSE

Frames == <<"laserA", "laserB">>
CamFrames == {"camA", "camB"}
NoFrame == "none"
\* odometry readings: the origin, one step along x (within d_thresh_), the
\* far end of x, and the far end of y reached with a heading just short of pi
Poses == {<<0, 0, 0>>, <<d_thresh_, 0, 0>>, <<MaxPos, 0, 0>>,
          <<0, MaxPos, AngUnits - 1>>}
ZeroPose == <<0, 0, 0>>
\* the covariance updatePoseFromServer falls back to, in units of
\* 0.5 * 0.5 m^2 for xx and yy and of (pi/12)^2 for aa
DefaultCov == <<1, 1, 1>>
InitMeans == {<<1, 0, 3>>}

Abs(n) == IF n < 0 THEN -n ELSE n

\* ------------------------------------------------------------ angle_diff
normalize(z) ==
  LET m == z % (2 * AngUnits)
  IN  IF m > AngUnits THEN m - 2 * AngUnits ELSE m

\* atan2(sin(z), cos(z)) as the floating point unit has it: half a turn
\* comes back as pi or as -pi, with the sign the rounding gave sin(z)
normalize_fp(z) ==
  IF z % (2 * AngUnits) = AngUnits THEN {AngUnits, -AngUnits}
  ELSE {normalize(z)}

angle_diff_NoWrap(a, b) == a - b

angle_diff_HalfOpen(a, b) ==
  LET d1 == a - b
      d2a == 2 * AngUnits - Abs(d1)
      d2 == IF d1 > 0 THEN -d2a ELSE d2a
      d == IF Abs(d1) < Abs(d2) THEN d1 ELSE d2
  IN  IF d = -AngUnits THEN AngUnits ELSE d

\* angle_diff once a and b are normalized: d1, or d2 the other way round
angle_diff_normalized(a, b) ==
  LET d1 == a - b
      d2a == 2 * AngUnits - Abs(d1)
      d2 == IF d1 > 0 THEN -d2a ELSE d2a
  IN  IF Abs(d1) < Abs(d2) THEN d1 ELSE d2

angle_diff(a, b) == angle_diff_normalized(normalize(a), normalize(b))

\* delta between two odometric poses, yaw differenced with angle_diff
PoseDelta(pose, ref) ==
  <<pose[1] - ref[1], pose[2] - ref[2], angle_diff(pose[3], ref[3])>>

\* bool update = fabs(dx) > d_thresh_ || fabs(dy) > d_thresh_ || fabs(da) > a_thresh_
MovedEnough(delta_update) ==
  \/ Abs(delta_update[1]) > d_thresh_
  \/ Abs(delta_update[2]) > d_thresh_
  \/ Abs(delta_update[3]) > a_thresh_

VARIABLES
  map_,                    \* 0 = NULL, otherwise the id of the current map
  pf_,                     \* the particle filter as the node's calls shape it
  odom_, laser_, marker_,  \* TRUE when the object exists (non-null)
  lasers_, lasers_update_, frame_to_laser_,
  frame_to_camera_, marker_update,
  pf_init_scan, pf_init_cam,
  m_force_update_scan, m_force_update_cam,
  pf_odom_pose_, latest_odom_pose_scan, latest_odom_pose_camera,
  latest_odom_pose_,
  resample_count_cam,
  initial_pose_hyp_,       \* "NULL" mean, or the pending hypothesis
  last_published_pose, latest_tf_, latest_tf_valid_, sent_first_transform_,
  first_map_received_,
  hyps,                    \* the cluster weights the last publication step met
  clusterings,             \* the cluster weights the filter can come to hold
  tfb_,                    \* the transforms the broadcaster was handed
  set_map_req,             \* the set_map request between its two calls
  free_space_indices,      \* the cells of the map that are free
  init_pose_,              \* the initial pose read from the parameter server
  init_cov_,               \* and its covariance: xx, yy, aa
  param_server,            \* the parameters initial_pose_* and initial_cov_*
  ops,                     \* the callback that ran last and what it did
  steps,                   \* callbacks served so far
  rare,                    \* failures and degenerate inputs met so far
  configuration_mutex_,    \* the recursive mutex: its owner and its depth
  threads,                 \* what each thread has left to run of its call
  call,                    \* the function applied last, its input and result
  process,                 \* "running", or how the process ended
  save_pose_last_time      \* when the pose was last saved on the server

vars == <<map_, pf_, odom_, laser_, marker_, lasers_, lasers_update_,
          frame_to_laser_, frame_to_camera_, marker_update, pf_init_scan,
          pf_init_cam, m_force_update_scan, m_force_update_cam,
          pf_odom_pose_, latest_odom_pose_scan, latest_odom_pose_camera,
          latest_odom_pose_, resample_count_cam, initial_pose_hyp_,
          last_published_pose, latest_tf_, latest_tf_valid_,
          sent_first_transform_, first_map_received_, hyps, clusterings,
          tfb_, set_map_req, free_space_indices, init_pose_, init_cov_, param_server, ops, steps, rare>>

\* ------------------------------------------------------- particle filter
\* pf_matrix_zero(): the 3x3 matrix of zeros
pf_matrix_zero == <<<<0, 0, 0>>, <<0, 0, 0>>, <<0, 0, 0>>>>

\* m[i][j] of a pf_matrix_t, i and j counted from 0 as in the code
At(m, i, j) == m[i + 1][j + 1]

\* pf_cov.m[0][0], m[1][1], m[2][2] set from three variances, the rest zero
DiagCov(v) == <<<<v[1], 0, 0>>, <<0, v[2], 0>>, <<0, 0, v[3]>>>>

NullPf == [alloc |-> FALSE, init |-> "none", mean |-> ZeroPose,
           cov |-> pf_matrix_zero,
           moved |-> ZeroPose, weighted |-> FALSE, current_set |-> 0,
           stats |-> "none"]

\* pf_alloc followed by pf_init(pf_, mean, cov): a fresh Gaussian set drawn
\* around `mean` with covariance `cov`
pf_init(mean, cov) ==
  [alloc |-> TRUE, init |-> "gauss", mean |-> mean, cov |-> cov,
   moved |-> ZeroPose, weighted |-> FALSE, current_set |-> 0,
   stats |-> "fresh"]

\* pf_init_model(pf_, uniformPoseGenerator, map_): a fresh uniform set
pf_init_model(pf) ==
  [pf EXCEPT !.init = "uniform", !.mean = ZeroPose,
             !.cov = pf_matrix_zero, !.moved = ZeroPose,
             !.weighted = FALSE, !.current_set = 0, !.stats = "fresh"]

\* odom_->UpdateAction(pf_, &odata): every sample is moved by odata.delta
UpdateAction(pf, delta) ==
  [pf EXCEPT !.moved = <<@[1] + delta[1], @[2] + delta[2],
                         normalize(@[3] + delta[3])>>]

\* lasers_[i]->UpdateSensor / marker_->UpdateSensor: the weights change
UpdateSensor(pf) == [pf EXCEPT !.weighted = TRUE, !.stats = "stale"]

\* pf_update_resample(pf_): writes the other set, flips, recomputes stats
pf_update_resample(pf) ==
  [pf EXCEPT !.weighted = FALSE, !.current_set = 1 - @, !.stats = "fresh"]

\* pf_cluster_stats(pf_, pf_->sets): recomputes the statistics of set 0
pf_cluster_stats(pf) ==
  [pf EXCEPT !.stats = IF pf.current_set = 0 THEN "fresh" ELSE @]

\* ------------------------------------------------------------ node state
Node ==
  [map_ |-> map_, pf_ |-> pf_, odom_ |-> odom_, laser_ |-> laser_,
   marker_ |-> marker_, lasers_ |-> lasers_, lasers_update_ |-> lasers_update_,
   frame_to_laser_ |-> frame_to_laser_, frame_to_camera_ |-> frame_to_camera_,
   marker_update |-> marker_update, pf_init_scan |-> pf_init_scan,
   pf_init_cam |-> pf_init_cam, m_force_update_scan |-> m_force_update_scan,
   m_force_update_cam |-> m_force_update_cam, pf_odom_pose_ |-> pf_odom_pose_,
   latest_odom_pose_scan |-> latest_odom_pose_scan,
   latest_odom_pose_camera |-> latest_odom_pose_camera,
   latest_odom_pose_ |-> latest_odom_pose_,
   resample_count_cam |-> resample_count_cam,
   initial_pose_hyp_ |-> initial_pose_hyp_,
   last_published_pose |-> last_published_pose, latest_tf_ |-> latest_tf_,
   latest_tf_valid_ |-> latest_tf_valid_,
   sent_first_transform_ |-> sent_first_transform_,
   first_map_received_ |-> first_map_received_,
   hyps |-> [weights |-> <<>>, read |-> 0], clusterings |-> clusterings,
   init_pose_ |-> init_pose_, init_cov_ |-> init_cov_,
   param_server |-> param_server,
   tfb_ |-> <<>>, stamp |-> steps + 1, set_map_req |-> set_map_req,
   free_space_indices |-> free_space_indices,
   ops |-> <<>>, rare |-> rare, process |-> process,
   save_pose_last_time |-> save_pose_last_time]

\* the callback `name` returns leaving the node in state s
Commit(name, s) ==
  /\ s.rare <= MaxRare /\ rare' = s.rare
  /\ ops' = <<name>> \o s.ops
  /\ map_' = s.map_ /\ pf_' = s.pf_ /\ odom_' = s.odom_ /\ laser_' = s.laser_
  /\ marker_' = s.marker_ /\ lasers_' = s.lasers_
  /\ lasers_update_' = s.lasers_update_
  /\ frame_to_laser_' = s.frame_to_laser_
  /\ frame_to_camera_' = s.frame_to_camera_
  /\ marker_update' = s.marker_update
  /\ pf_init_scan' = s.pf_init_scan /\ pf_init_cam' = s.pf_init_cam
  /\ m_force_update_scan' = s.m_force_update_scan
  /\ m_force_update_cam' = s.m_force_update_cam
  /\ pf_odom_pose_' = s.pf_odom_pose_
  /\ latest_odom_pose_scan' = s.latest_odom_pose_scan
  /\ latest_odom_pose_camera' = s.latest_odom_pose_camera
  /\ latest_odom_pose_' = s.latest_odom_pose_
  /\ resample_count_cam' = s.resample_count_cam
  /\ initial_pose_hyp_' = s.initial_pose_hyp_
  /\ last_published_pose' = s.last_published_pose
  /\ latest_tf_' = s.latest_tf_ /\ latest_tf_valid_' = s.latest_tf_valid_
  /\ sent_first_transform_' = s.sent_first_transform_
  /\ first_map_received_' = s.first_map_received_
  /\ hyps' = s.hyps
  /\ clusterings' = s.clusterings
  /\ tfb_' = s.tfb_
  /\ init_pose_' = s.init_pose_
  /\ init_cov_' = s.init_cov_
  /\ param_server' = s.param_server
  /\ set_map_req' = s.set_map_req
  /\ free_space_indices' = s.free_space_indices
  /\ UNCHANGED <<configuration_mutex_, threads, call>>
  /\ process' = IF name = "sigint" THEN s.process ELSE process
  /\ save_pose_last_time' = s.save_pose_last_time

\* the callback returns: the spinner has served one more of them
Return(name, s) ==
  /\ steps' = steps + 1
  /\ Commit(name, s)

Did(s, op) == [s EXCEPT !.ops = Append(@, op)]
HasIn(o, op) == \E i \in DOMAIN o : o[i] = op

NoMap_Never(s) == FALSE

\* if( map_ == NULL ) return;
NoMap(s) == s.map_ = 0

\* no set_map request is being served
NoReq == [set |-> FALSE, frame_id |-> "", mean |-> ZeroPose,
          covariance |-> <<>>]

Serving_Concurrently == steps < MaxSteps

\* ros::spinOnce() in main serves the callbacks one at a time, each one to
\* its return, while the step budget lasts
Serving == steps < MaxSteps /\ ~set_map_req.set

\* a transform failure, an unreadable or weightless cluster set, an empty
\* detection set: counted, and at most MaxRare of them per behaviour
Rare(s, happened) == IF happened THEN [s EXCEPT !.rare = @ + 1] ELSE s

OdomFailed_ResetsGate(s) ==
  Did(Rare([s EXCEPT !.pf_init_scan = FALSE, !.pf_init_cam = FALSE], TRUE),
      "err_odom")

\* getOdomPose failed: the callback logs the error and returns
OdomFailed(s) == Did(Rare(s, TRUE), "err_odom")

\* the outcomes of a transform lookup that the budget still allows
Outcomes(s) == IF s.rare < MaxRare THEN BOOLEAN ELSE {TRUE}

NoHyp == [set |-> FALSE, mean |-> ZeroPose, cov |-> pf_matrix_zero]
NoPose == [valid |-> FALSE, hyp |-> 0]
\* a pose message before anything is copied into it: the covariance is zero
NoPoseMsg == [valid |-> FALSE, hyp |-> 0, covariance |-> [k \in 0..35 |-> 0]]

\* -------------------------------------------------------- publication
\* what pf_get_cluster_stats can report: the weight of each cluster
ClusterSets == {<<0>>, <<1>>}
\* the same with two clusters: of equal weights, or the second one heavier
TwoClusterSets == ClusterSets \cup {<<1, 1>>, <<1, 2>>}

RECURSIVE HypLoop_KeepsLast(_, _, _, _, _)
HypLoop_KeepsLast(clusters, failAt, hyp_count, max_weight, max_weight_hyp) ==
  IF hyp_count >= Len(clusters) \/ hyp_count = failAt
  THEN [max_weight |-> max_weight, max_weight_hyp |-> max_weight_hyp]
  ELSE IF clusters[hyp_count + 1] >= max_weight /\ clusters[hyp_count + 1] > 0
       THEN HypLoop_KeepsLast(clusters, failAt, hyp_count + 1,
                              clusters[hyp_count + 1], hyp_count)
       ELSE HypLoop_KeepsLast(clusters, failAt, hyp_count + 1,
                              max_weight, max_weight_hyp)

\* the loop over hyp_count: strict '>' keeps the first maximum; the loop
\* breaks at the first cluster whose statistics cannot be read (failAt)
RECURSIVE HypLoop(_, _, _, _, _)
HypLoop(clusters, failAt, hyp_count, max_weight, max_weight_hyp) ==
  IF hyp_count >= Len(clusters) \/ hyp_count = failAt
  THEN [max_weight |-> max_weight, max_weight_hyp |-> max_weight_hyp]
  ELSE IF clusters[hyp_count + 1] > max_weight
       THEN HypLoop(clusters, failAt, hyp_count + 1,
                    clusters[hyp_count + 1], hyp_count)
       ELSE HypLoop(clusters, failAt, hyp_count + 1,
                    max_weight, max_weight_hyp)

\* tf::StampedTransform(transform, stamp, frame_id, child_frame_id) for
\* each of the four ways the node fills it in: the map->odom transform is
\* latest_tf_.inverse(), the odom->map one of the camera path latest_tf_;
\* the stamp is that of the observation, with or without the tolerance
StampedTransform(s, op) ==
  [transform |-> [inverse |-> op \in {"tf", "tf_at_stamp"},
                  of |-> s.latest_tf_],
   stamp |-> IF op \in {"tf", "tf_inv"}
             THEN s.stamp + transform_tolerance_ ELSE s.stamp,
   frame_id |-> IF op \in {"tf", "tf_at_stamp"} THEN "map" ELSE "odom",
   child_frame_id |-> IF op \in {"tf", "tf_at_stamp"} THEN "odom" ELSE "map"]

\* tfb_->sendTransform for each of tfops in turn
RECURSIVE sendTransform(_, _)
sendTransform(s, tfops) ==
  IF tfops = <<>>
  THEN s
  ELSE sendTransform([s EXCEPT !.ops = Append(@, Head(tfops)),
                               !.tfb_ = Append(@, StampedTransform(s, Head(tfops)))],
                     Tail(tfops))

\* savePoseToServer: the pose in the map frame and three variances of
\* last_published_pose are set on the parameter server
savePoseToServer(s) == Did(s, "save_pose")

\* save_pose_rate is 0.5 Hz: a period of two, in the time between one
\* callback and the next
save_pose_period == 2

\* ros::Time::now() while the callback of stamp s.stamp runs: the node
\* was started later than one save period after time zero
StartTime == save_pose_period
Now(s) == StartTime + s.stamp

savePose_Always(s) ==
  [savePoseToServer(s) EXCEPT !.save_pose_last_time = Now(s)]

\* if((save_pose_period.toSec() > 0.0) &&
\*    (now - save_pose_last_time) >= save_pose_period)
\*   { savePoseToServer(); save_pose_last_time = now; }
savePose(s) ==
  IF save_pose_period > 0 /\ Now(s) - s.save_pose_last_time >= save_pose_period
  THEN [savePoseToServer(s) EXCEPT !.save_pose_last_time = Now(s)]
  ELSE s

Republish_Stale(name, s, tfops) ==
  IF s.latest_tf_valid_
  THEN Return(name,
              savePose([sendTransform(s, tfops) EXCEPT
                          !.tfb_ = [i \in DOMAIN @ |->
                                      [@[i] EXCEPT !.stamp = s.stamp]]]))
  ELSE Return(name, s)

Republish_Unconditional(name, s, tfops) ==
  Return(name, savePose(IF tf_broadcast_ THEN sendTransform(s, tfops) ELSE s))

\* "Nothing changed, so we'll just republish the last transform", then the
\* periodic save of the pose to the parameter server
Republish(name, s, tfops) ==
  IF s.latest_tf_valid_
  THEN Return(name,
              savePose(IF tf_broadcast_ THEN sendTransform(s, tfops) ELSE s))
  ELSE Return(name, s)

\* what the cluster read-out can meet: the clusters and the index of the
\* first cluster whose statistics cannot be read (Len(clusters): none);
\* the reads that fail are those of a cluster of positive weight
Readable(c) == <<c, Len(c)>>
\* the usual read-out: a single cluster, of positive weight, read without
\* failure; every other one is counted with the failures
UsualHyps == {Readable(c) : c \in {d \in ClusterSets : Len(d) = 1 /\ d[1] > 0}}
HypInputs(s) ==
  UsualHyps
  \cup IF s.rare < MaxRare
       THEN UNION {{Readable(c)} \cup
                   {<<c, failAt>> : failAt \in {i \in 0..(Len(c) - 1) :
                                                 c[i + 1] > 0}} :
                   c \in s.clusterings}
       ELSE {}

HypOutcome_FirstCluster(clusters, failAt) ==
  [found |-> failAt > 0 /\ clusters[1] > 0, max_weight_hyp |-> 0,
   failed |-> failAt < Len(clusters)]

\* what the loop leaves behind for each of them: whether max_weight > 0,
\* max_weight_hyp, and whether a cluster could not be read
HypOutcome(clusters, failAt) ==
  LET r == HypLoop(clusters, failAt, 0, 0, -1)
  IN  [found |-> r.max_weight > 0, max_weight_hyp |-> r.max_weight_hyp,
       failed |-> failAt < Len(clusters)]

\* the publication step reads the clusters `in`
ReadHyps(s, in) ==
  Rare([s EXCEPT !.hyps = [weights |-> in[1], read |-> in[2]]],
       in \notin UsualHyps)

\* set->cov of the current sample set and hyps[h].pf_pose_cov of cluster h:
\* 3x3 matrices, each entry written as a number that tells the matrix, the
\* row and the column
SetCov(pf) == [i \in 0..2 |-> [j \in 0..2 |->
                 100 + 10 * (i + 1) + (j + 1)]]
HypCov(pf, h) == [i \in 0..2 |-> [j \in 0..2 |->
                    1000 * (h + 1) + 10 * (i + 1) + (j + 1)]]

\* "Copy in the covariance, converting from 3-D to 6-D"
Covariance6(m) ==
  [k \in 0..35 |-> IF (k \div 6) < 2 /\ (k % 6) < 2 THEN m[k \div 6][k % 6]
                   ELSE IF k = 6 * 5 + 5 THEN m[2][2]
                   ELSE 0]

PoseCovariance_OfHypothesis(s, max_weight_hyp) ==
  Covariance6(HypCov(s.pf_, max_weight_hyp))

\* set->cov in its 6-D form; SetCov is the same matrix whatever the filter
\* holds, so it is converted once
SetCovariance6 == Covariance6(SetCov(NullPf))

\* "Report the overall filter covariance, rather than the covariance for
\* the highest-weight cluster"
PoseCovariance(s, max_weight_hyp) == SetCovariance6

\* the geometry_msgs::PoseWithCovarianceStamped p that is published
PoseMsg(s, max_weight_hyp) ==
  [valid |-> TRUE, hyp |-> max_weight_hyp,
   covariance |-> PoseCovariance(s, max_weight_hyp)]

PublishTransform_FailureInvalidates(name, s2, max_weight_hyp, tfops) ==
  \E baseTfOK \in Outcomes(s2) :
    IF ~baseTfOK
    THEN Return(name, Did(Rare([s2 EXCEPT !.latest_tf_valid_ = FALSE], TRUE),
                          "err_base_tf"))
    ELSE Return(name,
                LET p == [valid |-> TRUE, hyp |-> max_weight_hyp]
                    s3 == [s2 EXCEPT !.latest_tf_ = p,
                                     !.latest_tf_valid_ = TRUE]
                IN  IF tf_broadcast_
                    THEN [sendTransform(s3, tfops) EXCEPT
                            !.sent_first_transform_ = TRUE]
                    ELSE s3)

\* lines 1606-1645: the pose is published; the base transform is looked up,
\* and unless that fails latest_tf_ is stored and broadcast
PublishTransform(name, s2, max_weight_hyp, tfops) ==
  \E baseTfOK \in Outcomes(s2) :
    IF ~baseTfOK
    THEN Return(name, Did(Rare(s2, TRUE), "err_base_tf"))
    ELSE Return(name,
                LET p == [valid |-> TRUE, hyp |-> max_weight_hyp]
                    s3 == [s2 EXCEPT !.latest_tf_ = p,
                                     !.latest_tf_valid_ = TRUE]
                IN  IF tf_broadcast_
                    THEN [sendTransform(s3, tfops) EXCEPT
                            !.sent_first_transform_ = TRUE]
                    ELSE s3)

\* if(max_weight > 0.0) { publish the pose ... } else ROS_ERROR("No pose!")
PublishPose(name, s1, out, tfops) ==
  IF out.found
  THEN PublishTransform(name,
                        Did([s1 EXCEPT !.last_published_pose =
                                          PoseMsg(s1, out.max_weight_hyp)],
                            "pose"),
                        out.max_weight_hyp, tfops)
  ELSE Return(name, Did(s1, "no_pose"))

\* the clusters `in` are read, leaving `out` behind
PublishHyps(name, s0, in, out, tfops) ==
  PublishPose(name,
              ReadHyps(IF out.failed THEN Did(s0, "err_cluster") ELSE s0, in),
              out, tfops)

\* if(!resampled) pf_cluster_stats(pf_, pf_->sets);
PublishStats(s, resampled) ==
  IF ~resampled
  THEN Did([s EXCEPT !.pf_ = pf_cluster_stats(@),
                     !.ops = Append(@, "publication")],
           "cluster_stats")
  ELSE Did(s, "publication")

\* if(resampled || force_publication) { ... } else if(latest_tf_valid_) { ... }
Publish(name, s, resampled, force_publication, tfops, retfops) ==
  IF resampled \/ force_publication
  THEN \E in \in HypInputs(s) :
         PublishHyps(name, PublishStats(s, resampled), in,
                     HypOutcome(in[1], in[2]), tfops)
  ELSE Republish(name, s, retfops)

\* ------------------------------------------------------- laserReceived
RECURSIVE AllTrue(_)
AllTrue(flags) ==
  IF flags = <<>> THEN <<>> ELSE <<TRUE>> \o AllTrue(Tail(flags))

LaserGate_NoForce(s, pose) ==
  IF s.pf_init_scan
  THEN LET delta_update == PoseDelta(pose, s.latest_odom_pose_scan)
           update == MovedEnough(delta_update)
       IN  [s EXCEPT !.m_force_update_scan = FALSE,
                     !.lasers_update_ = IF update THEN AllTrue(@) ELSE @]
  ELSE s

\* lines 1337-1360: the laser gate
LaserGate(s, pose) ==
  IF s.pf_init_scan
  THEN LET delta_update == PoseDelta(pose, s.latest_odom_pose_scan)
           update == MovedEnough(delta_update) \/ s.m_force_update_scan
       IN  [s EXCEPT !.m_force_update_scan = FALSE,
                     !.lasers_update_ = IF update THEN AllTrue(@) ELSE @]
  ELSE s

LaserDelta_OwnPose(s, pose) ==
  IF s.pf_init_scan
  THEN PoseDelta(pose, s.latest_odom_pose_scan)
  ELSE ZeroPose

\* lines 1334-1342: the change in pose since the last filter update, whichever
\* sensor made it
LaserDelta(s, pose) ==
  IF s.pf_init_scan
  THEN PoseDelta(pose, s.pf_odom_pose_)
  ELSE ZeroPose

\* lines 1362-1398: seed the gate, or integrate the motion
LaserInitOrMotion(s, pose, laser_index, delta) ==
  IF ~s.pf_init_scan
  THEN Did([s EXCEPT !.pf_odom_pose_ = pose, !.latest_odom_pose_scan = pose,
                     !.pf_init_scan = TRUE, !.lasers_update_ = AllTrue(@)],
           "seed")
  ELSE IF s.lasers_update_[laser_index + 1]
       THEN Did([s EXCEPT !.pf_ = UpdateAction(@, delta)], "motion")
       ELSE s

LaserScore_RefreshesBothGates(s, pose, laser_index) ==
  LET s1 == Did([s EXCEPT !.pf_ = UpdateSensor(@),
                          !.lasers_update_[laser_index + 1] = FALSE,
                          !.latest_odom_pose_scan = pose,
                          !.latest_odom_pose_camera = pose,
                          !.pf_odom_pose_ = pose], "score")
      s2 == Did([s1 EXCEPT !.pf_ = pf_update_resample(@)], "resample")
  IN  IF ~s2.m_force_update_scan THEN Did(s2, "cloud") ELSE s2

\* lines 1465-1499: score, refresh the poses, resample, publish the cloud
LaserScore(s, pose, laser_index) ==
  LET s1 == Did([s EXCEPT !.pf_ = UpdateSensor(@),
                          !.lasers_update_[laser_index + 1] = FALSE,
                          !.latest_odom_pose_scan = pose,
                          !.pf_odom_pose_ = pose], "score")
      s2 == Did([s1 EXCEPT !.pf_ = pf_update_resample(@)], "resample")
  IN  IF ~s2.m_force_update_scan THEN Did(s2, "cloud") ELSE s2

\* lines 1400-1672: if(lasers_update_[laser_index]) the scan is scored,
\* unless its angles cannot be transformed; then the publication step
LaserUpdate(s3, pose, laser_index, force_publication) ==
  IF s3.lasers_update_[laser_index + 1]
  THEN \E angTfOK \in Outcomes(s3) :
         IF ~angTfOK
         THEN Return("laser", Did(Rare(s3, TRUE), "err_angles"))
         ELSE Publish("laser", LaserScore(s3, pose, laser_index),
                      TRUE, force_publication, <<"tf">>, <<"tf">>)
  ELSE Publish("laser", s3, FALSE, force_publication, <<"tf">>, <<"tf">>)

\* lines 1325-1672, once the laser index is known
LaserCycle(s, laser_index) ==
  \E odomOK \in Outcomes(s) : \E pose \in IF odomOK THEN Poses ELSE {ZeroPose} :
    IF ~odomOK
    THEN Return("laser", OdomFailed(s))
    ELSE LaserUpdate(
           LET s1 == [s EXCEPT !.latest_odom_pose_ = pose]
               delta == LaserDelta(s, pose)
               s2 == LaserGate(s1, pose)
           IN  LaserInitOrMotion(s2, pose, laser_index, delta),
           pose, laser_index, ~s.pf_init_scan)

LaserRegister_IndexOfObject(s, frame, laserTfOK) ==
  LET laser_index == Len(s.lasers_)
      s1 == [s EXCEPT !.lasers_ = Append(@, NoFrame),
                      !.lasers_update_ = Append(@, TRUE)]
  IN  IF ~laserTfOK
      THEN Did(Rare(s1, TRUE), "err_laser_tf")
      ELSE [s1 EXCEPT !.lasers_[laser_index + 1] = frame,
                      !.frame_to_laser_ =
                         [f \in DOMAIN @ \cup {frame} |->
                            IF f = frame THEN laser_index ELSE @[f]]]

\* lines 1284-1323: look the frame up, or register a new laser for it
LaserRegister(s, frame, laserTfOK) ==
  LET laser_index == Cardinality(DOMAIN s.frame_to_laser_)
      s1 == [s EXCEPT !.lasers_ = Append(@, NoFrame),
                      !.lasers_update_ = Append(@, TRUE)]
  IN  IF ~laserTfOK
      THEN Did(Rare(s1, TRUE), "err_laser_tf")
      ELSE [s1 EXCEPT !.lasers_[laser_index + 1] = frame,
                      !.frame_to_laser_ =
                         [f \in DOMAIN @ \cup {frame} |->
                            IF f = frame THEN laser_index ELSE @[f]]]

\* Frame names carry no meaning: the lasers are named in the order in which
\* the node first hears them, and so are the cameras.
HeardFrames ==
  {Frames[i] : i \in {j \in DOMAIN Frames :
                        \A k \in 1..(j - 1) : Frames[k] \in DOMAIN frame_to_laser_}}
HeardCamFrames == IF frame_to_camera_ = "" THEN {"camA"} ELSE CamFrames

\* lines 1296-1323: the laser of a frame heard for the first time is
\* registered, unless its pose on the robot cannot be looked up
LaserRegistered(s1, frame, laserTfOK) ==
  IF ~laserTfOK
  THEN Return("laser", s1)
  ELSE LaserCycle(s1, s1.frame_to_laser_[frame])

\* lines 1276-1672: the scan of `frame` is handled from the node state s0
LaserScan(s0, frame) ==
  IF NoMap(s0)
  THEN Return("laser", s0)
  ELSE IF frame \notin DOMAIN s0.frame_to_laser_
       THEN \E laserTfOK \in Outcomes(s0) :
              LaserRegistered(LaserRegister(s0, frame, laserTfOK), frame,
                              laserTfOK)
       ELSE LaserCycle(s0, s0.frame_to_laser_[frame])

laserReceived ==
  /\ Serving
  /\ \E frame \in HeardFrames : LaserScan(Did(Node, frame), frame)

\* --------------------------------------------------- detectionCallback
\* lines 1963-1969: the change in pose since the last filter update
CameraDelta(s, pose) ==
  IF s.pf_init_cam
  THEN PoseDelta(pose, s.pf_odom_pose_)
  ELSE ZeroPose

CameraGate_KeepsForce(s, pose) ==
  IF s.pf_init_cam
  THEN LET delta_update == PoseDelta(pose, s.latest_odom_pose_camera)
           update == MovedEnough(delta_update) \/ s.m_force_update_cam
       IN  [s EXCEPT !.marker_update = IF update THEN TRUE ELSE @]
  ELSE s

\* lines 1961-1988: the camera gate
CameraGate(s, pose) ==
  IF s.pf_init_cam
  THEN LET delta_update == PoseDelta(pose, s.latest_odom_pose_camera)
           update == MovedEnough(delta_update) \/ s.m_force_update_cam
       IN  [s EXCEPT !.m_force_update_cam = FALSE,
                     !.marker_update = IF update THEN TRUE ELSE @]
  ELSE s

CameraInitOrMotion_SeedMoves(s, pose, delta) ==
  IF ~s.pf_init_cam
  THEN Did(Did([s EXCEPT !.pf_odom_pose_ = pose,
                         !.latest_odom_pose_camera = pose,
                         !.pf_init_cam = TRUE, !.marker_update = TRUE,
                         !.resample_count_cam = 0,
                         !.pf_ = UpdateAction(@, delta)], "seed"), "motion")
  ELSE IF s.marker_update
       THEN Did([s EXCEPT !.pf_ = UpdateAction(@, delta)], "motion")
       ELSE s

\* lines 1989-2016: seed the gate, or integrate the motion
CameraInitOrMotion(s, pose, delta) ==
  IF ~s.pf_init_cam
  THEN Did([s EXCEPT !.pf_odom_pose_ = pose, !.latest_odom_pose_camera = pose,
                     !.pf_init_cam = TRUE, !.marker_update = TRUE,
                     !.resample_count_cam = 0], "seed")
  ELSE IF s.marker_update
       THEN Did([s EXCEPT !.pf_ = UpdateAction(@, delta)], "motion")
       ELSE s

CameraResample_Always(s) ==
  Did([s EXCEPT !.resample_count_cam = @ + 1,
                !.pf_ = pf_update_resample(@)], "resample")

\* if(!(++resample_count_cam % resample_interval_)) pf_update_resample(pf_);
CameraResample(s) ==
  LET s1 == [s EXCEPT !.resample_count_cam = @ + 1]
  IN  IF s1.resample_count_cam % resample_interval_ = 0
      THEN Did([s1 EXCEPT !.pf_ = pf_update_resample(@)], "resample")
      ELSE s1

CameraScore_EmptySkipsUpdate(s, pose, empty) ==
  IF empty
  THEN Did(s, "obs_empty")
  ELSE LET s1 == Did([s EXCEPT !.pf_ = UpdateSensor(@)], "score")
           s2 == [s1 EXCEPT !.latest_odom_pose_camera = pose,
                            !.pf_odom_pose_ = pose,
                            !.marker_update = FALSE]
           s3 == CameraResample(s2)
       IN  IF ~s3.m_force_update_cam THEN Did(s3, "cloud") ELSE s3

\* lines 2018-2063: score a non-empty observation, refresh the poses,
\* resample on the interval, publish the cloud
CameraScore(s, pose, empty) ==
  LET s1 == IF ~empty
            THEN Did([s EXCEPT !.pf_ = UpdateSensor(@)], "score")
            ELSE Did(s, "obs_empty")
      s2 == [s1 EXCEPT !.latest_odom_pose_camera = pose,
                       !.pf_odom_pose_ = pose,
                       !.marker_update = FALSE]
      s3 == CameraResample(s2)
  IN  IF ~s3.m_force_update_cam THEN Did(s3, "cloud") ELSE s3

CameraResampled_OnInterval(s) == HasIn(s.ops, "resample")

\* "resampled = true;" follows the resampling on the interval without braces
CameraResampled(s) == TRUE

\* lines 1943-1950: a detection from another frame makes a new marker model
CameraRegister(s, frame) ==
  IF s.frame_to_camera_ # frame
  THEN [s EXCEPT !.marker_update = TRUE, !.frame_to_camera_ = frame]
  ELSE s

\* lines 2018-2222: if(marker_update) the detections are scored, an empty
\* set of them included; then the publication step
CameraUpdate(s3, pose, force_publication) ==
  IF s3.marker_update
  THEN \E empty \in {~b : b \in Outcomes(s3)} :
         Publish("camera",
                 CameraScore(Rare(s3, empty), pose, empty),
                 CameraResampled(
                   CameraScore(Rare(s3, empty), pose, empty)),
                 force_publication,
                 <<"tf_at_stamp", "tf_inv_at_stamp">>,
                 <<"tf", "tf_inv">>)
  ELSE Publish("camera", s3, FALSE, force_publication,
               <<"tf_at_stamp", "tf_inv_at_stamp">>,
               <<"tf", "tf_inv">>)

\* lines 1951-2222, once the camera frame is known
CameraCycle(s0) ==
  \E odomOK \in Outcomes(s0) :
  \E pose \in IF odomOK THEN Poses ELSE {ZeroPose} :
    IF ~odomOK
    THEN Return("camera", OdomFailed(s0))
    ELSE CameraUpdate(
           LET s1 == [s0 EXCEPT !.latest_odom_pose_ = pose]
               delta == CameraDelta(s0, pose)
               s2 == CameraGate(s1, pose)
           IN  CameraInitOrMotion(s2, pose, delta),
           pose, ~s0.pf_init_cam)

detectionCallback ==
  /\ Serving
  /\ \E frame \in HeardCamFrames :
       IF NoMap(Node)
       THEN Return("camera", Did(Node, frame))
       ELSE CameraCycle(CameraRegister(Did(Node, frame), frame))

\* ----------------------------------------------------- parameter server
\* the parameters of the initial pose and of its covariance, in the order
\* of init_pose_[0..2] and init_cov_[0..2]
PoseParams == <<"initial_pose_x", "initial_pose_y", "initial_pose_a">>
CovParams == <<"initial_cov_xx", "initial_cov_yy", "initial_cov_aa">>
NaN == [nan |-> TRUE, v |-> 0]
Num(v) == [nan |-> FALSE, v |-> v]

\* private_nh_.param(name, tmp_pos, default): the value on the server, or
\* the default when the parameter is not set
param(server, name, default) ==
  IF name \in DOMAIN server THEN server[name] ELSE Num(default)

\* what one field is left at: param() into tmp_pos, then
\* if(!std::isnan(tmp_pos)) field = tmp_pos; else ROS_WARN(...)
ReadField_KeepsPrevious(server, name, reset, held) ==
  LET tmp_pos == param(server, name, held)
  IN  IF ~tmp_pos.nan THEN tmp_pos.v ELSE held

\* `reset` is the value the field was just reset to, `held` the one it
\* held before the call
ReadField(server, name, reset, held) ==
  LET tmp_pos == param(server, name, reset)
  IN  IF ~tmp_pos.nan THEN tmp_pos.v ELSE reset

\* updatePoseFromServer: reset the six fields to the built-in values, then
\* read each of them from the server
updatePoseFromServer(s) ==
  [s EXCEPT
     !.init_pose_ = [i \in 1..3 |-> ReadField(s.param_server, PoseParams[i],
                                              ZeroPose[i], s.init_pose_[i])],
     !.init_cov_ = [i \in 1..3 |-> ReadField(s.param_server, CovParams[i],
                                             DefaultCov[i], s.init_cov_[i])]]

\* ------------------------------------------------------------- services
applyInitialPose_KeepsPending(s) ==
  IF s.initial_pose_hyp_.set /\ s.map_ # 0
  THEN [s EXCEPT !.pf_ = pf_init(s.initial_pose_hyp_.mean,
                                 s.initial_pose_hyp_.cov),
                 !.pf_init_scan = FALSE, !.pf_init_cam = FALSE,
                 !.ops = Append(@, "pf_init")]
  ELSE s

\* applyInitialPose: apply and clear the pending hypothesis if a map exists
applyInitialPose(s) ==
  IF s.initial_pose_hyp_.set /\ s.map_ # 0
  THEN [s EXCEPT !.pf_ = pf_init(s.initial_pose_hyp_.mean,
                                 s.initial_pose_hyp_.cov),
                 !.pf_init_scan = FALSE, !.pf_init_cam = FALSE,
                 !.initial_pose_hyp_ = NoHyp,
                 !.ops = Append(@, "pf_init")]
  ELSE s

\* the nav_msgs::OccupancyGrid of the map `id`: two cells by two, one of
\* them occupied and one unknown
OccupancyGrid(id) ==
  [width |-> 2, height |-> 2, resolution |-> 1, origin |-> <<0, 0>>,
   data |-> [k \in 0..3 |-> <<0, 100, -1, 0>>[k + 1]]]

\* convertMap: occ_state is -1 for a free cell (data 0), +1 for an occupied
\* one (data 100) and 0 for any other value
convertMap_Transposed(map_msg) ==
  [size_x |-> map_msg.width, size_y |-> map_msg.height,
   scale |-> map_msg.resolution,
   origin_x |-> map_msg.origin[1]
                  + (map_msg.width \div 2) * map_msg.resolution,
   origin_y |-> map_msg.origin[2]
                  + (map_msg.height \div 2) * map_msg.resolution,
   cells |-> [k \in 0..(map_msg.width * map_msg.height - 1) |->
                LET d == map_msg.data[(k % map_msg.height) * map_msg.width
                                        + (k \div map_msg.height)]
                IN  IF d = 0 THEN -1 ELSE IF d = 100 THEN 1 ELSE 0]]

convertMap(map_msg) ==
  [size_x |-> map_msg.width, size_y |-> map_msg.height,
   scale |-> map_msg.resolution,
   origin_x |-> map_msg.origin[1]
                  + (map_msg.width \div 2) * map_msg.resolution,
   origin_y |-> map_msg.origin[2]
                  + (map_msg.height \div 2) * map_msg.resolution,
   cells |-> [k \in 0..(map_msg.width * map_msg.height - 1) |->
                IF map_msg.data[k] = 0 THEN -1
                ELSE IF map_msg.data[k] = 100 THEN 1
                ELSE 0]]

MAP_INDEX(map, i, j) == i + j * map.size_x

\* for(i < size_x) for(j < size_y) if(occ_state == -1) push_back((i, j))
FreeCells(map) ==
  SelectSeq([n \in 1..(map.size_x * map.size_y) |->
               <<(n - 1) \div map.size_y, (n - 1) % map.size_y>>],
            LAMBDA c : map.cells[MAP_INDEX(map, c[1], c[2])] = -1)

RebuildIndex_NoResize(s, map) == s.free_space_indices \o FreeCells(map)

\* free_space_indices.resize(0), then the loop over the cells of the map
RebuildIndex(s, map) == FreeCells(map)

\* freeMapDependentMemory: map_free and pf_free of what exists, delete of
\* the three sensor models
freeMapDependentMemory(s) ==
  LET s1 == IF s.map_ # 0 THEN Did([s EXCEPT !.map_ = 0], "map_free") ELSE s
      s2 == IF s1.pf_.alloc
            THEN Did([s1 EXCEPT !.pf_ = NullPf], "pf_free") ELSE s1
  IN  [s2 EXCEPT !.odom_ = FALSE, !.laser_ = FALSE, !.marker_ = FALSE,
                 !.ops = @ \o <<"delete_odom", "delete_laser",
                                "delete_marker">>]

handleMapMessage_NoMarker(s, id) ==
  applyInitialPose(
    [updatePoseFromServer(freeMapDependentMemory(s))
       EXCEPT !.map_ = id,
              !.free_space_indices =
                 RebuildIndex(s, convertMap(OccupancyGrid(id))),
              !.lasers_ = <<>>, !.lasers_update_ = <<>>,
              !.frame_to_laser_ = <<>>,
              !.pf_ = pf_init(updatePoseFromServer(s).init_pose_,
                              DiagCov(updatePoseFromServer(s).init_cov_)),
              !.pf_init_scan = FALSE, !.pf_init_cam = FALSE,
              !.odom_ = TRUE, !.laser_ = TRUE,
              !.ops = Append(@, "pf_init")])

\* handleMapMessage: tear down, rebuild from the new map, seed the filter
\* from the pose on the parameter server, apply a pending initial pose
handleMapMessage(s, id) ==
  applyInitialPose(
    [updatePoseFromServer(freeMapDependentMemory(s))
       EXCEPT !.map_ = id,
              !.free_space_indices =
                 RebuildIndex(s, convertMap(OccupancyGrid(id))),
              !.lasers_ = <<>>, !.lasers_update_ = <<>>,
              !.frame_to_laser_ = <<>>,
              !.pf_ = pf_init(updatePoseFromServer(s).init_pose_,
                              DiagCov(updatePoseFromServer(s).init_cov_)),
              !.pf_init_scan = FALSE, !.pf_init_cam = FALSE,
              !.odom_ = TRUE, !.laser_ = TRUE, !.marker_ = TRUE,
              !.ops = Append(@, "pf_init")])

\* msg.pose.covariance of an initial pose: 36 entries that all differ
MsgCovariance == [k \in 0..35 |-> 200 + k]

\* the motion of the base between the stamp of the message and now, as
\* tf_ has it: none, or one step ahead and a twelfth of a turn to the left
BaseMotion == <<1, 0, 1>>
TxOdoms == {ZeroPose, BaseMotion}

\* the vector (x, y) turned by `quarters` quarter turns
RotateQuarters(x, y, quarters) ==
  CASE quarters % 4 = 0 -> <<x, y>>
    [] quarters % 4 = 1 -> <<-y, x>>
    [] quarters % 4 = 2 -> <<-x, -y>>
    [] quarters % 4 = 3 -> <<y, -x>>

\* pose_new = pose_old * tx_odom, read back as (x, y, yaw); the yaw of
\* pose_old is a whole number of quarter turns
ComposePose(pose_old, tx_odom) ==
  LET t == RotateQuarters(tx_odom[1], tx_odom[2],
                          (pose_old[3] * 4) \div (2 * AngUnits))
  IN  <<pose_old[1] + t[1], pose_old[2] + t[2],
        normalize(pose_old[3] + tx_odom[3])>>

\* "Copy in the covariance, converting from 6-D to 3-D"
Covariance3(covariance) ==
  <<<<covariance[6 * 0 + 0], covariance[6 * 0 + 1], 0>>,
    <<covariance[6 * 1 + 0], covariance[6 * 1 + 1], 0>>,
    <<0, 0, covariance[6 * 5 + 5]>>>>

\* lines 1734-1751: tx_odom is looked up in tf_; when the lookup throws,
\* a warning is logged once a transform has been sent and tx_odom is the
\* identity.  `tx` is the motion of the base since the stamp of the
\* message; the log notes whether the base has moved.
LookupTxOdom(s, txOK, tx) ==
  LET s1 == IF tx # ZeroPose THEN Did(s, "base_moved") ELSE s
  IN  IF txOK THEN s1
      ELSE Rare(IF s.sent_first_transform_ THEN Did(s1, "warn_tx_odom")
                ELSE s1, TRUE)

handleInitialPoseMessage_AnyFrame(s, msg, txOK, tx) ==
  applyInitialPose(
    [LookupTxOdom(s, txOK, tx)
       EXCEPT !.initial_pose_hyp_ =
                [set |-> TRUE,
                 mean |-> ComposePose(msg.mean,
                                      IF txOK THEN tx ELSE ZeroPose),
                 cov |-> Covariance3(msg.covariance)],
              !.ops = IF msg.frame_id # "" /\ msg.frame_id # "map"
                      THEN Append(@, "ignored_pose") ELSE @])

handleInitialPoseMessage_StalePose(s, msg, txOK, tx) ==
  IF msg.frame_id # "" /\ msg.frame_id # "map"
  THEN Did(s, "ignored_pose")
  ELSE applyInitialPose(
         [LookupTxOdom(s, txOK, tx)
            EXCEPT !.initial_pose_hyp_ =
                     [set |-> TRUE, mean |-> msg.mean,
                      cov |-> Covariance3(msg.covariance)]])

\* handleInitialPoseMessage: drop a pose in a foreign frame, otherwise
\* advance it by the motion of the base since its stamp, make it the
\* pending hypothesis with the covariance of the message and try to apply
\* it.  `tx` is what tf_ answers when the lookup succeeds (txOK).
handleInitialPoseMessage(s, msg, txOK, tx) ==
  IF msg.frame_id # "" /\ msg.frame_id # "map"
  THEN Did(s, "ignored_pose")
  ELSE applyInitialPose(
         [LookupTxOdom(s, txOK, tx)
            EXCEPT !.initial_pose_hyp_ =
                     [set |-> TRUE,
                      mean |-> ComposePose(msg.mean,
                                           IF txOK THEN tx ELSE ZeroPose),
                      cov |-> Covariance3(msg.covariance)]])

MapIds == {1}
PoseFrames == {"", "map", "odom"}

\* The node as the constructor leaves it.  The members the constructor does
\* not set (pf_init_scan, pf_init_cam, marker_update, the stored poses) are
\* written before they are first read; they start at a fixed value here.
Blank ==
  [map_ |-> 0, pf_ |-> NullPf, odom_ |-> FALSE, laser_ |-> FALSE,
   marker_ |-> TRUE, lasers_ |-> <<>>, lasers_update_ |-> <<>>,
   frame_to_laser_ |-> <<>>, frame_to_camera_ |-> "",
   marker_update |-> FALSE, pf_init_scan |-> FALSE, pf_init_cam |-> FALSE,
   m_force_update_scan |-> FALSE, m_force_update_cam |-> FALSE,
   pf_odom_pose_ |-> ZeroPose, latest_odom_pose_scan |-> ZeroPose,
   latest_odom_pose_camera |-> ZeroPose, latest_odom_pose_ |-> ZeroPose,
   resample_count_cam |-> 0, initial_pose_hyp_ |-> NoHyp,
   last_published_pose |-> NoPoseMsg, latest_tf_ |-> NoPose,
   latest_tf_valid_ |-> FALSE, sent_first_transform_ |-> FALSE,
   first_map_received_ |-> FALSE,
   hyps |-> [weights |-> <<>>, read |-> 0], clusterings |-> ClusterSets,
   init_pose_ |-> ZeroPose, init_cov_ |-> DefaultCov,
   param_server |-> <<>>,
   tfb_ |-> <<>>, stamp |-> 0, set_map_req |-> NoReq,
   free_space_indices |-> <<>>,
   ops |-> <<>>, rare |-> 0]

\* AmclNode::AmclNode: with use_map_topic the node waits for a map message,
\* otherwise requestMap() fetches the map before the constructor returns
Constructed(use_map_topic_) ==
  IF use_map_topic_
  THEN updatePoseFromServer(Blank)
  ELSE [handleMapMessage(updatePoseFromServer(Blank), 1) EXCEPT !.ops = <<>>]

\* the node as the constructor leaves it
Started(s) ==
        /\ map_ = s.map_ /\ pf_ = s.pf_ /\ odom_ = s.odom_
        /\ laser_ = s.laser_ /\ marker_ = s.marker_ /\ lasers_ = s.lasers_
        /\ lasers_update_ = s.lasers_update_
        /\ frame_to_laser_ = s.frame_to_laser_
        /\ frame_to_camera_ = s.frame_to_camera_
        /\ marker_update = s.marker_update
        /\ pf_init_scan = s.pf_init_scan /\ pf_init_cam = s.pf_init_cam
        /\ m_force_update_scan = s.m_force_update_scan
        /\ m_force_update_cam = s.m_force_update_cam
        /\ pf_odom_pose_ = s.pf_odom_pose_
        /\ latest_odom_pose_scan = s.latest_odom_pose_scan
        /\ latest_odom_pose_camera = s.latest_odom_pose_camera
        /\ latest_odom_pose_ = s.latest_odom_pose_
        /\ resample_count_cam = s.resample_count_cam
        /\ initial_pose_hyp_ = s.initial_pose_hyp_
        /\ last_published_pose = s.last_published_pose
        /\ latest_tf_ = s.latest_tf_ /\ latest_tf_valid_ = s.latest_tf_valid_
        /\ sent_first_transform_ = s.sent_first_transform_
        /\ first_map_received_ = s.first_map_received_
        /\ hyps = s.hyps /\ clusterings = s.clusterings
        /\ init_pose_ = s.init_pose_ /\ init_cov_ = s.init_cov_
        /\ param_server = s.param_server
        /\ tfb_ = s.tfb_ /\ set_map_req = s.set_map_req
        /\ free_space_indices = s.free_space_indices
        /\ ops = <<"init">> /\ steps = 0 /\ rare = 0

\* main's thread, which runs the constructor and then serves the
\* callbacks, and a second thread that serves callbacks beside it
Spinners == {1, 2}

\* the mutex is free, every thread is idle, no function is being applied
Unlocked == [owner |-> 0, count |-> 0]
NoCall == [fn |-> "none"]
Idle ==
  /\ configuration_mutex_ = Unlocked
  /\ threads = [t \in Spinners |-> <<>>]
  /\ call = NoCall
  /\ process = "running"
  /\ save_pose_last_time = 0

Init ==
  /\ \E use_map_topic_ \in BOOLEAN : Started(Constructed(use_map_topic_))
  /\ Idle

mapReceived ==
  /\ Serving
  /\ \E id \in MapIds :
         IF first_map_only_ /\ first_map_received_
         THEN Return("map", Node)
         ELSE Return("map", [handleMapMessage(Node, id)
                               EXCEPT !.first_map_received_ = TRUE])

\* setMapCallback up to the return of handleMapMessage(req.map), where the
\* configuration lock is released
setMapCallback ==
  /\ Serving
  /\ \E id \in MapIds :
       \E frame_id \in PoseFrames : \E pose_new \in InitMeans :
         /\ steps' = steps
         /\ Commit("setmap",
                   [handleMapMessage(Node, id) EXCEPT
                      !.set_map_req = [set |-> TRUE, frame_id |-> frame_id,
                                       mean |-> pose_new,
                                       covariance |-> MsgCovariance]])

\* setMapCallback from handleInitialPoseMessage(req.initial_pose), which
\* takes the lock again, to its return
setMapCallback_initialPose ==
  /\ set_map_req.set
  /\ \E txOK \in Outcomes(Node) : \E tx \in TxOdoms :
       Return("setmap",
              handleInitialPoseMessage(
                [Node EXCEPT !.ops = Tail(ops), !.set_map_req = NoReq],
                set_map_req, txOK, tx))

initialPoseReceived ==
  /\ Serving
  /\ \E frame_id \in PoseFrames : \E pose_old \in InitMeans :
       \E txOK \in Outcomes(Node) : \E tx \in TxOdoms :
         Return("initialpose",
                handleInitialPoseMessage(
                  Node, [frame_id |-> frame_id, mean |-> pose_old,
                         covariance |-> MsgCovariance], txOK, tx))

globalLocalizationCallback_KeepsCameraGate ==
  /\ Serving
  /\ IF map_ = 0
       THEN Return("globalloc", Did(Node, "return_true"))
       ELSE Return("globalloc",
                   [Node EXCEPT !.pf_ = pf_init_model(@),
                                !.pf_init_scan = FALSE,
                                !.ops = @ \o <<"pf_init_model",
                                               "return_true">>])

\* globalLocalizationCallback: without a map it returns true at once; with
\* one it draws a uniform set over the free cells and resets the gates
globalLocalizationCallback ==
  /\ Serving
  /\ IF map_ = 0
       THEN Return("globalloc", Did(Node, "return_true"))
       ELSE Return("globalloc",
                   [Node EXCEPT !.pf_ = pf_init_model(@),
                                !.pf_init_scan = FALSE, !.pf_init_cam = FALSE,
                                !.ops = @ \o <<"pf_init_model",
                                               "return_true">>])

nomotionUpdateCallback_LaserOnly ==
  /\ Serving
  /\ Return("nomotion", [Node EXCEPT !.m_force_update_scan = TRUE])

nomotionUpdateCallback ==
  /\ Serving
  /\ Return("nomotion", [Node EXCEPT !.m_force_update_scan = TRUE,
                                       !.m_force_update_cam = TRUE])

\* reconfigureCB after the start-up call (which the constructor absorbs):
\* a new filter seeded from last_published_pose, new sensor models, both
\* gates reset
reconfigureCB ==
  /\ Serving
  /\ Return("reconfigure",
            [Node EXCEPT !.pf_ = [pf_init(ZeroPose,
                                          DiagCov(<<last_published_pose.covariance[6 * 0 + 0],
                                                    last_published_pose.covariance[6 * 1 + 1],
                                                    last_published_pose.covariance[6 * 5 + 5]>>))
                                    EXCEPT !.init = "last_published"],
                         !.pf_init_scan = FALSE, !.pf_init_cam = FALSE,
                         !.odom_ = TRUE, !.laser_ = TRUE, !.marker_ = TRUE,
                         !.ops = Append(@, "pf_init")])

Next ==
  \/ laserReceived
  \/ detectionCallback
  \/ mapReceived
  \/ setMapCallback
  \/ setMapCallback_initialPose
  \/ initialPoseReceived
  \/ globalLocalizationCallback
  \/ nomotionUpdateCallback
  \/ reconfigureCB

Spec == Init /\ [][Next]_vars

\* rosparam set / rosparam delete from outside the node: one parameter of
\* the initial pose changes on the server
MaxParams == 2
ParamValues == {NaN, Num(1), Num(2)}
setParam ==
  \E name \in {PoseParams[i] : i \in 1..3} \cup {CovParams[i] : i \in 1..3} :
    /\ \/ \E val \in ParamValues :
            param_server' = [n \in DOMAIN param_server \cup {name} |->
                               IF n = name THEN val ELSE param_server[n]]
       \/ /\ name \in DOMAIN param_server
          /\ param_server' = [n \in DOMAIN param_server \ {name} |->
                               param_server[n]]
    /\ Cardinality(DOMAIN param_server') <= MaxParams
    /\ UNCHANGED <<map_, pf_, odom_, laser_, marker_, lasers_, lasers_update_,
                   frame_to_laser_, frame_to_camera_, marker_update,
                   pf_init_scan, pf_init_cam, m_force_update_scan,
                   m_force_update_cam, pf_odom_pose_, latest_odom_pose_scan,
                   latest_odom_pose_camera, latest_odom_pose_,
                   resample_count_cam, initial_pose_hyp_, last_published_pose,
                   latest_tf_, latest_tf_valid_, sent_first_transform_,
                   first_map_received_, hyps, clusterings, tfb_, set_map_req,
                   free_space_indices, init_pose_, init_cov_, ops, steps,
                   rare, configuration_mutex_, threads, call, process,
                   save_pose_last_time>>

\* the node on the map topic while the parameters of the initial pose
\* change on the server
PoseNext ==
  \/ setParam
  \/ mapReceived

PoseSpec == Init /\ [][PoseNext]_vars

\* the node that fetched its map in the constructor (use_map_topic_ false:
\* no map subscription), on a filter whose sample set can split into two
\* clusters, fed by the two sensors
HypInit ==
  /\ Started([Constructed(FALSE) EXCEPT !.clusterings = TwoClusterSets])
  /\ Idle

HypNext ==
  \/ laserReceived
  \/ detectionCallback

HypSpec == HypInit /\ [][HypNext]_vars

lockvars == <<vars, configuration_mutex_, threads, call, process,
              save_pose_last_time>>

\* -------------------------------------------------------------- SIGINT
\* boost::shared_ptr<AmclNode> amcl_node_ptr: main never resets it (the
\* node is a local of main), so it holds no node
NullPtr == 0
amcl_node_ptr == NullPtr

\* amcl_node_ptr->savePoseToServer() through a pointer that holds nothing:
\* the assertion of shared_ptr::operator-> aborts the process, or, in a
\* build without assertions, the member function runs on a null `this`
\* and faults at its first read of a member
NullDereference == {"aborted", "segfault"}

sigintHandler_OnTheNode ==
  /\ process = "running"
  /\ steps < MaxSteps
  /\ steps' = steps + 1
  /\ Commit("sigint", [savePoseToServer(Node) EXCEPT !.process = "shutdown"])

\* sigintHandler: save the latest pose, then ros::shutdown()
sigintHandler ==
  /\ process = "running"
  /\ steps < MaxSteps
  /\ steps' = steps + 1
  /\ IF amcl_node_ptr = NullPtr
     THEN \E outcome \in NullDereference :
            Commit("sigint", [Node EXCEPT !.process = outcome])
     ELSE Commit("sigint",
                 [savePoseToServer(Node) EXCEPT !.process = "shutdown"])

\* the node with its two sensors until the signal arrives
SigNext ==
  \/ process = "running" /\ laserReceived
  \/ process = "running" /\ detectionCallback
  \/ sigintHandler

SigSpec == Init /\ [][SigNext]_lockvars

\* ------------------------------------------------ the configuration lock
\* what a thread does next: take or release configuration_mutex_, read or
\* write a member of the node, or start serving callbacks
Lock == <<"lock", "configuration_mutex_">>
Unlock == <<"unlock", "configuration_mutex_">>
R(member) == <<"read", member>>
W(member) == <<"write", member>>
SpinOnce == <<"spin", "">>

\* applyInitialPose, handleMapMessage, handleInitialPoseMessage and
\* requestMap as sequences of these steps: each one is the scope of a
\* scoped_lock, and the calls they make are inlined
applyInitialPoseSteps ==
  <<Lock, R("initial_pose_hyp_"), R("map_"), W("pf_"), Unlock>>
handleMapMessageSteps ==
  <<Lock, W("map_"), W("pf_")>> \o applyInitialPoseSteps \o <<Unlock>>
handleInitialPoseMessageSteps ==
  <<Lock, W("initial_pose_hyp_")>> \o applyInitialPoseSteps \o <<Unlock>>
requestMapSteps == <<Lock>> \o handleMapMessageSteps \o <<Unlock>>

\* the constructor holds the lock from line 390 to its end and requests
\* the map on the way; then main serves callbacks
ConstructorSteps == <<Lock>> \o requestMapSteps \o <<Unlock, SpinOnce>>

\* the callbacks, each with the accesses it makes before, inside and after
\* the scope of its lock
CallbackSteps ==
  [laserReceived |-> <<R("map_"), Lock, W("pf_"), Unlock>>,
   detectionCallback |-> <<R("map_"), Lock, W("pf_"), Unlock>>,
   mapReceived |-> <<R("first_map_received_")>> \o handleMapMessageSteps
                     \o <<W("first_map_received_")>>,
   setMapCallback |-> handleMapMessageSteps \o handleInitialPoseMessageSteps,
   initialPoseReceived |-> handleInitialPoseMessageSteps,
   globalLocalizationCallback |-> <<R("map_"), Lock, W("pf_"), Unlock>>,
   nomotionUpdateCallback |-> <<W("m_force_update_scan"),
                                W("m_force_update_cam")>>,
   reconfigureCB |-> <<Lock, W("pf_"), Unlock>>]

\* how many scopes of the lock the thread is in: the releases it has left
\* to do less the acquisitions
RECURSIVE Depth(_)
Depth(steps_left) ==
  IF steps_left = <<>> THEN 0
  ELSE Depth(Tail(steps_left))
         + (IF Head(steps_left) = Unlock THEN 1
            ELSE IF Head(steps_left) = Lock THEN -1 ELSE 0)

Spinning ==
  \A t \in Spinners : \A i \in DOMAIN threads[t] : threads[t][i] # SpinOnce

AtStep(t, kinds) == threads[t] # <<>> /\ Head(threads[t])[1] \in kinds

MayLock_Always(t) == TRUE

MayLock_NonRecursive(t) == configuration_mutex_.owner = 0

\* boost::recursive_mutex: free, or held by the thread that asks for it
MayLock(t) == configuration_mutex_.owner \in {0, t}

LockUnchanged ==
  UNCHANGED <<map_, pf_, odom_, laser_, marker_, lasers_, lasers_update_,
              frame_to_laser_, frame_to_camera_, marker_update,
              pf_init_scan, pf_init_cam, m_force_update_scan,
              m_force_update_cam, pf_odom_pose_, latest_odom_pose_scan,
              latest_odom_pose_camera, latest_odom_pose_,
              resample_count_cam, initial_pose_hyp_, last_published_pose,
              latest_tf_, latest_tf_valid_, sent_first_transform_,
              first_map_received_, hyps, clusterings, tfb_, set_map_req,
              free_space_indices, init_pose_, init_cov_, param_server, ops,
              rare, call, process, save_pose_last_time>>

\* a thread that is idle takes the next callback from the queue
Dispatch(t) ==
  /\ Spinning /\ steps < MaxSteps
  /\ threads[t] = <<>>
  /\ \E name \in DOMAIN CallbackSteps :
       threads' = [threads EXCEPT ![t] = CallbackSteps[name]]
  /\ steps' = steps + 1
  /\ UNCHANGED configuration_mutex_
  /\ LockUnchanged

\* scoped_lock's constructor
Acquire(t) ==
  /\ AtStep(t, {"lock"})
  /\ MayLock(t)
  /\ configuration_mutex_' = [owner |-> t,
                              count |-> configuration_mutex_.count + 1]
  /\ threads' = [threads EXCEPT ![t] = Tail(@)]
  /\ UNCHANGED steps /\ LockUnchanged

\* scoped_lock's destructor
Release(t) ==
  /\ AtStep(t, {"unlock"})
  /\ configuration_mutex_' =
       [owner |-> IF configuration_mutex_.count = 1 THEN 0
                  ELSE configuration_mutex_.owner,
        count |-> configuration_mutex_.count - 1]
  /\ threads' = [threads EXCEPT ![t] = Tail(@)]
  /\ UNCHANGED steps /\ LockUnchanged

\* a read or a write of a member, or the constructor's return into main
Access(t) ==
  /\ AtStep(t, {"read", "write", "spin"})
  /\ threads' = [threads EXCEPT ![t] = Tail(@)]
  /\ UNCHANGED <<steps, configuration_mutex_>> /\ LockUnchanged

LockInit ==
  /\ Started(Constructed(FALSE))
  /\ configuration_mutex_ = Unlocked
  /\ threads = [t \in Spinners |-> IF t = 1 THEN ConstructorSteps ELSE <<>>]
  /\ call = NoCall
  /\ process = "running"
  /\ save_pose_last_time = 0

LockNext ==
  \/ \E t \in Spinners : Dispatch(t)
  \/ \E t \in Spinners : Acquire(t)
  \/ \E t \in Spinners : Release(t)
  \/ \E t \in Spinners : Access(t)

LockSpec == LockInit /\ [][LockNext]_lockvars

\* ---------------------------------------------------- functions alone
\* the functions of the node each applied to an input of its own
MaxAngle == 13
MaxCells == 4
Angles == (-MaxAngle)..MaxAngle
OccValues == {0, 100, -1, 50}
Resolutions == {1, 2}

\* the occupancy grids of at most MaxCells cells
GridMsgs ==
  UNION {{[width |-> w, height |-> h, resolution |-> r, origin |-> <<0, 0>>,
           data |-> d] : d \in [0..(w * h - 1) -> OccValues]} :
         <<w, h, r>> \in {x \in (1..MaxCells) \X (1..MaxCells) \X Resolutions :
                            x[1] * x[2] <= MaxCells}}

\* what free_space_indices holds, or its storage still holds, from before
OldIndexes == {<<>>, <<<<0, 0>>>>, <<<<1, 0>>, <<0, 0>>>>}

\* MAP_WXGX and MAP_WYGY: the world coordinate of the centre of a cell
MAP_WXGX(map, i) == map.origin_x + (i - map.size_x \div 2) * map.scale
MAP_WYGY(map, j) == map.origin_y + (j - map.size_y \div 2) * map.scale

uniformPoseGenerator_Checked(map, index, storage) ==
  IF index = <<>> THEN {[kind |-> "map_error"]}
  ELSE {[kind |-> "pose", free_point |-> index[rand_index + 1],
         x |-> MAP_WXGX(map, index[rand_index + 1][1]),
         y |-> MAP_WYGY(map, index[rand_index + 1][2])] :
        rand_index \in 0..(Len(index) - 1)}

\* uniformPoseGenerator: rand_index is drand48() * free_space_indices.size()
\* and the pose is at free_space_indices[rand_index].  On an empty index
\* rand_index is 0 and element 0 is read beyond the end of the vector:
\* out of storage that was never allocated (a fault), or out of what the
\* storage holds from the index of an earlier map
uniformPoseGenerator(map, index, storage) ==
  IF index = <<>>
  THEN IF storage = <<>> THEN {[kind |-> "segfault"]}
       ELSE {[kind |-> "pose", free_point |-> storage[1],
              x |-> MAP_WXGX(map, storage[1][1]),
              y |-> MAP_WYGY(map, storage[1][2])]}
  ELSE {[kind |-> "pose", free_point |-> index[rand_index + 1],
         x |-> MAP_WXGX(map, index[rand_index + 1][1]),
         y |-> MAP_WYGY(map, index[rand_index + 1][2])] :
        rand_index \in 0..(Len(index) - 1)}

\* the function fn is about to be applied to the input in
Called(fn, in) == call = [fn |-> fn, in |-> in, done |-> FALSE, out |-> <<>>]

Pending(fn) == call.fn = fn /\ ~call.done

Returned(out) ==
  call' = [fn |-> call.fn, in |-> call.in, done |-> TRUE, out |-> out]

FnUnchanged ==
  UNCHANGED <<vars, configuration_mutex_, threads, process,
              save_pose_last_time>>

\* angle_diff(a, b), with a and b as normalize left them
Apply_angle_diff ==
  /\ Pending("angle_diff")
  /\ \E a \in normalize_fp(call.in[1]) : \E b \in normalize_fp(call.in[2]) :
       Returned([a |-> a, b |-> b, d |-> angle_diff_normalized(a, b)])
  /\ FnUnchanged

Apply_convertMap ==
  /\ Pending("convertMap")
  /\ Returned(convertMap(call.in))
  /\ FnUnchanged

\* lines 1011-1020 of handleMapMessage on a node whose index is call.in[1]
Apply_free_space_indices ==
  /\ Pending("free_space_indices")
  /\ Returned(RebuildIndex([free_space_indices |-> call.in[1]],
                           convertMap(call.in[2])))
  /\ FnUnchanged

\* the generator on the map call.in[2] and its index, the storage of the
\* vector holding what call.in[1] left in it
Apply_uniformPoseGenerator ==
  /\ Pending("uniformPoseGenerator")
  /\ \E p \in uniformPoseGenerator(convertMap(call.in[2]),
                                   FreeCells(convertMap(call.in[2])),
                                   call.in[1]) :
       Returned(p)
  /\ FnUnchanged

FnInit ==
  /\ Started(Constructed(FALSE))
  /\ configuration_mutex_ = Unlocked
  /\ threads = [t \in Spinners |-> <<>>]
  /\ process = "running"
  /\ save_pose_last_time = 0
  /\ \/ \E a \in Angles : \E b \in Angles : Called("angle_diff", <<a, b>>)
     \/ \E msg \in GridMsgs : Called("convertMap", msg)
     \/ \E old \in OldIndexes : \E msg \in GridMsgs :
          \/ Called("free_space_indices", <<old, msg>>)
          \/ Called("uniformPoseGenerator", <<old, msg>>)

FnNext ==
  \/ Apply_angle_diff
  \/ Apply_convertMap
  \/ Apply_free_space_indices
  \/ Apply_uniformPoseGenerator

FnSpec == FnInit /\ [][FnNext]_lockvars

\* ================================================================ claims
\* what the callback that ran last did
Has(op) == HasIn(ops, op)
BeforeIn(o, a, b) == \E i, j \in DOMAIN o : i < j /\ o[i] = a /\ o[j] = b
Before(a, b) == BeforeIn(ops, a, b)

\* pose p differs from pose q by more than a threshold
Beyond(p, q) ==
  \/ Abs(p[1] - q[1]) > d_thresh_
  \/ Abs(p[2] - q[2]) > d_thresh_
  \/ Abs(angle_diff(p[3], q[3])) > a_thresh_

\* the observation reached the gate: the map is loaded, the sensor is known
\* and the odometric pose was obtained
GotPose(o) == ~HasIn(o, "err_odom") /\ ~HasIn(o, "err_laser_tf")

\* ------------------------------------------------------------------- C1
\* C1 as stated: with the gate initialized, an observation integrates the
\* motion and scores exactly when the pose moved beyond a threshold from this
\* sensor's last-update pose or the force flag is set; otherwise the filter
\* is not touched.
C1_GateOnMotionOrForce ==
  [][/\ (ops'[1] = "laser" /\ map_ # 0 /\ pf_init_scan /\ GotPose(ops'))
          => LET fire == \/ Beyond(latest_odom_pose_', latest_odom_pose_scan)
                         \/ m_force_update_scan
             IN  /\ fire <=> (HasIn(ops', "motion") /\ HasIn(ops', "score"))
                 /\ ~fire => pf_' = pf_
     /\ (ops'[1] = "camera" /\ map_ # 0 /\ pf_init_cam /\ GotPose(ops'))
          => LET fire == \/ Beyond(latest_odom_pose_', latest_odom_pose_camera)
                         \/ m_force_update_cam
             IN  /\ fire <=> (HasIn(ops', "motion") /\ HasIn(ops', "score"))
                 /\ ~fire => pf_' = pf_
    ]_vars

\* C1 amended: with the gate initialized, an observation integrates the
\* motion exactly when the pose moved beyond a threshold from this sensor's
\* last-update pose, or the force flag is set, or this sensor's pending-update
\* flag is already set (a laser heard for the first time counts as pending);
\* scoring follows the motion unless the laser's angle transform fails or the
\* detection set is empty; otherwise the filter is not touched.
C1_GateOnMotionForceOrPending ==
  [][/\ (ops'[1] = "laser" /\ map_ # 0 /\ pf_init_scan /\ GotPose(ops'))
          => LET frame == ops'[2]
                 pending == \/ frame \notin DOMAIN frame_to_laser_
                            \/ lasers_update_[frame_to_laser_[frame] + 1]
                 fire == \/ Beyond(latest_odom_pose_', latest_odom_pose_scan)
                         \/ m_force_update_scan
                         \/ pending
             IN  /\ fire <=> HasIn(ops', "motion")
                 /\ HasIn(ops', "score")
                      <=> (fire /\ ~HasIn(ops', "err_angles"))
                 /\ HasIn(ops', "score") => BeforeIn(ops', "motion", "score")
                 /\ ~fire => pf_' = pf_
     /\ (ops'[1] = "camera" /\ map_ # 0 /\ pf_init_cam /\ GotPose(ops'))
          => LET pending == ops'[2] # frame_to_camera_ \/ marker_update
                 fire == \/ Beyond(latest_odom_pose_', latest_odom_pose_camera)
                         \/ m_force_update_cam
                         \/ pending
             IN  /\ fire <=> HasIn(ops', "motion")
                 /\ HasIn(ops', "score")
                      <=> (fire /\ ~HasIn(ops', "obs_empty"))
                 /\ HasIn(ops', "score") => BeforeIn(ops', "motion", "score")
                 /\ ~fire => pf_' = pf_
    ]_vars

\* a second laser, heard for the first time at the pose of the last laser
\* update with no force request, has integrated the motion and scored
C1_Witness ==
  /\ ops[1] = "laser" /\ ops[2] = "laserB"
  /\ Has("motion") /\ Has("score")
  /\ pf_.moved = ZeroPose
  /\ ~m_force_update_cam

\* ------------------------------------------------------------------- C2
\* C2 as stated: the cycle that seeds a gate sets the sensor's last-update
\* pose to the current odometric pose, marks the gate initialized, applies
\* the observation model without the motion model and runs the publication
\* step.
C2_SeedScoresAndPublishes ==
  /\ (ops[1] = "laser" /\ Has("seed"))
       => /\ latest_odom_pose_scan = latest_odom_pose_ /\ pf_init_scan
          /\ ~Has("motion") /\ Has("score") /\ Has("publication")
  /\ (ops[1] = "camera" /\ Has("seed"))
       => /\ latest_odom_pose_camera = latest_odom_pose_ /\ pf_init_cam
          /\ ~Has("motion") /\ Has("score") /\ Has("publication")

\* C2 amended: the cycle that seeds a gate sets the sensor's last-update
\* pose to the current odometric pose, marks the gate initialized and applies
\* no motion model; it scores and then runs the publication step, except
\* that a laser cycle whose angle transform fails stops after the seeding and
\* a camera cycle with an empty detection set publishes without scoring.
C2_SeedScoresUnlessAbortedOrEmpty ==
  /\ (ops[1] = "laser" /\ Has("seed"))
       => /\ latest_odom_pose_scan = latest_odom_pose_ /\ pf_init_scan
          /\ ~Has("motion") /\ ~Has("obs_empty")
          /\ IF Has("err_angles")
             THEN ~Has("score") /\ ~Has("publication")
             ELSE Before("seed", "score") /\ Before("score", "publication")
  /\ (ops[1] = "camera" /\ Has("seed"))
       => /\ latest_odom_pose_camera = latest_odom_pose_ /\ pf_init_cam
          /\ ~Has("motion") /\ ~Has("err_angles")
          /\ Has("score") <=> ~Has("obs_empty")
          /\ Has("score") => Before("seed", "score")
          /\ Before("seed", "publication")

\* a camera cycle has seeded its gate, scored and published a pose
C2_Witness ==
  /\ ops[1] = "camera" /\ Has("seed") /\ Has("score") /\ Has("pose")
  /\ latest_odom_pose_camera # ZeroPose

\* ------------------------------------------------------------------- C3
\* C3: the motion each sensor integrates is the current odometric pose minus
\* the global filter-update pose pf_odom_pose_ (yaw by angle_diff), and after
\* the cycle's observation step pf_odom_pose_ is the current odometric pose.
C3_DeltaFromGlobalPose ==
  [][(ops'[1] \in {"laser", "camera"})
       => /\ HasIn(ops', "motion")
               => pf_'.moved =
                    <<pf_.moved[1] + (latest_odom_pose_'[1] - pf_odom_pose_[1]),
                      pf_.moved[2] + (latest_odom_pose_'[2] - pf_odom_pose_[2]),
                      normalize(pf_.moved[3]
                                + angle_diff(latest_odom_pose_'[3],
                                             pf_odom_pose_[3]))>>
          /\ (HasIn(ops', "score") \/ HasIn(ops', "obs_empty"))
               => pf_odom_pose_' = latest_odom_pose_'
    ]_vars

\* a laser cycle has integrated a motion measured from a filter update that
\* the camera made elsewhere than the laser's own last update
C3_Witness ==
  /\ ops[1] = "laser" /\ Has("motion") /\ Has("score")
  /\ pf_init_cam /\ latest_odom_pose_camera # ZeroPose
  /\ pf_.moved # ZeroPose
  /\ pf_.moved # latest_odom_pose_

\* ------------------------------------------------------------------- C4
\* C4 as stated: after a cycle that applied the observation model, seeding
\* included, the sensor's last-update pose is the observation's odometric
\* pose and the sensor's force flag is false.
C4_ForceClearedAfterScoring ==
  /\ (ops[1] = "laser" /\ Has("score"))
       => latest_odom_pose_scan = latest_odom_pose_ /\ ~m_force_update_scan
  /\ (ops[1] = "camera" /\ Has("score"))
       => latest_odom_pose_camera = latest_odom_pose_ /\ ~m_force_update_cam

\* C4 amended: after a cycle that applied the observation model the sensor's
\* last-update pose is the observation's odometric pose; the sensor's force
\* flag is false after a cycle of an initialized gate and is left as it was
\* by the cycle that seeds the gate.
C4_ForceClearedUnlessSeeding ==
  [][/\ (ops'[1] = "laser" /\ HasIn(ops', "score"))
          => /\ latest_odom_pose_scan' = latest_odom_pose_'
             /\ m_force_update_scan'
                  = (HasIn(ops', "seed") /\ m_force_update_scan)
     /\ (ops'[1] = "camera" /\ HasIn(ops', "score"))
          => /\ latest_odom_pose_camera' = latest_odom_pose_'
             /\ m_force_update_cam'
                  = (HasIn(ops', "seed") /\ m_force_update_cam)
    ]_vars

\* a forced laser cycle of an initialized gate has scored and cleared the
\* laser's force flag
C4_Witness ==
  /\ ops[1] = "laser" /\ Has("motion") /\ Has("score")
  /\ ~m_force_update_scan /\ m_force_update_cam
  /\ latest_odom_pose_scan = latest_odom_pose_
  /\ latest_odom_pose_ # ZeroPose

C6_ResampleOnlyAfterScoring ==
  /\ (Has("motion") /\ Has("score")) => Before("motion", "score")
  /\ Has("resample") => Before("score", "resample")

\* a camera cycle with an empty detection set has resampled without scoring
C6_Witness ==
  /\ ops[1] = "camera" /\ Has("motion") /\ Has("obs_empty")
  /\ Has("resample") /\ ~Has("score")

\* ------------------------------------------------------------------- C7
\* C7 as stated: the no-motion-update service sets both force flags, and a
\* pending force flag makes the sensor's next observation (map loaded, pose
\* obtained, scan angles transformed, detection set not empty) run the full
\* cycle: motion, scoring, resampling per policy, publication.
C7_ForcedCycleIsFull ==
  [][/\ (ops'[1] = "nomotion")
          => m_force_update_scan' /\ m_force_update_cam'
     /\ (/\ m_force_update_scan /\ ops'[1] = "laser" /\ map_ # 0
         /\ GotPose(ops') /\ ~HasIn(ops', "err_angles"))
          => /\ HasIn(ops', "motion") /\ HasIn(ops', "score")
             /\ HasIn(ops', "resample") /\ HasIn(ops', "publication")
     /\ (/\ m_force_update_cam /\ ops'[1] = "camera" /\ map_ # 0
         /\ GotPose(ops') /\ ~HasIn(ops', "obs_empty"))
          => /\ HasIn(ops', "motion") /\ HasIn(ops', "score")
             /\ HasIn(ops', "publication")
             /\ HasIn(ops', "resample")
                  <=> (resample_count_cam' % resample_interval_ = 0)
    ]_vars

\* C7 amended: the no-motion-update service sets both force flags; a pending
\* force flag makes the next observation of a sensor whose gate is
\* initialized run the full cycle and clears the flag (a failed angle
\* transform stops the laser cycle after the motion, an empty detection set
\* is not scored); an observation that finds its gate not initialized runs
\* the seeding cycle, without motion, and leaves the flag set.
C7_ForcedCycleNeedsInitializedGate ==
  [][/\ (ops'[1] = "nomotion")
          => m_force_update_scan' /\ m_force_update_cam'
     /\ (m_force_update_scan /\ ops'[1] = "laser" /\ map_ # 0 /\ GotPose(ops'))
          => IF pf_init_scan
             THEN /\ HasIn(ops', "motion") /\ ~m_force_update_scan'
                  /\ \/ HasIn(ops', "err_angles")
                     \/ /\ HasIn(ops', "score") /\ HasIn(ops', "resample")
                        /\ HasIn(ops', "publication")
             ELSE /\ HasIn(ops', "seed") /\ ~HasIn(ops', "motion")
                  /\ m_force_update_scan'
     /\ (m_force_update_cam /\ ops'[1] = "camera" /\ map_ # 0 /\ GotPose(ops'))
          => IF pf_init_cam
             THEN /\ HasIn(ops', "motion") /\ ~m_force_update_cam'
                  /\ HasIn(ops', "score") <=> ~HasIn(ops', "obs_empty")
                  /\ HasIn(ops', "publication")
                  /\ HasIn(ops', "resample")
                       <=> (resample_count_cam' % resample_interval_ = 0)
             ELSE /\ HasIn(ops', "seed") /\ ~HasIn(ops', "motion")
                  /\ m_force_update_cam'
    ]_vars

\* after the service, a detection set taken where the camera last updated
\* has run the motion, the scoring and the publication
C7_Witness ==
  /\ ops[1] = "camera" /\ Has("motion") /\ Has("score") /\ Has("publication")
  /\ m_force_update_scan /\ ~m_force_update_cam
  /\ pf_.moved = ZeroPose

\* ------------------------------------------------------------------- C8
\* C8: while no map is loaded a laser scan or a detection set changes no
\* particle-filter state, no gate state and no laser registry, and nothing
\* is published.
C8_NoMapNoEffect ==
  [][(map_ = 0 /\ ops'[1] \in {"laser", "camera"})
       => /\ Len(ops') = 2
          /\ UNCHANGED <<map_, pf_, odom_, laser_, marker_, lasers_,
                         lasers_update_, frame_to_laser_, frame_to_camera_,
                         marker_update, pf_init_scan, pf_init_cam,
                         m_force_update_scan, m_force_update_cam,
                         pf_odom_pose_, latest_odom_pose_scan,
                         latest_odom_pose_camera, latest_odom_pose_,
                         resample_count_cam, initial_pose_hyp_,
                         last_published_pose, latest_tf_, latest_tf_valid_,
                         sent_first_transform_>>
    ]_vars

\* a detection set has arrived while no map is loaded and a force request
\* is pending
C8_Witness ==
  /\ map_ = 0 /\ ops[1] = "camera"
  /\ m_force_update_cam

\* ------------------------------------------------------------------- C9
\* C9 as stated: an observation whose odometric pose cannot be obtained
\* leaves the particles, the gates' poses, initialization flags, force flags
\* and pending-update flags and the laser registry unchanged, and nothing is
\* published.
C9_DroppedObservationNoEffect ==
  [][HasIn(ops', "err_odom")
       => /\ UNCHANGED <<pf_, pf_odom_pose_, latest_odom_pose_scan,
                         latest_odom_pose_camera, pf_init_scan, pf_init_cam,
                         m_force_update_scan, m_force_update_cam,
                         lasers_update_, marker_update,
                         lasers_, frame_to_laser_>>
          /\ Len(ops') = 3
    ]_vars

\* C9 amended: an observation whose odometric pose cannot be obtained
\* leaves the particles, the gates' poses, initialization flags and force
\* flags and the camera resample counter unchanged and nothing is published;
\* the registration made before the pose is asked for stays: a laser heard
\* for the first time has a registry entry, an index and its pending-update
\* flag set, and a detection set from another camera frame has set the
\* camera's pending-update flag.
C9_DroppedObservationKeepsRegistration ==
  [][HasIn(ops', "err_odom")
       => /\ UNCHANGED <<map_, pf_, pf_odom_pose_, latest_odom_pose_scan,
                         latest_odom_pose_camera, latest_odom_pose_,
                         pf_init_scan, pf_init_cam,
                         m_force_update_scan, m_force_update_cam,
                         resample_count_cam, initial_pose_hyp_,
                         last_published_pose, latest_tf_, latest_tf_valid_,
                         sent_first_transform_>>
          /\ Len(ops') = 3
          /\ (ops'[1] = "laser")
               => /\ UNCHANGED <<marker_update, frame_to_camera_>>
                  /\ IF ops'[2] \in DOMAIN frame_to_laser_
                     THEN UNCHANGED <<lasers_, lasers_update_, frame_to_laser_>>
                     ELSE LET laser_index == Cardinality(DOMAIN frame_to_laser_)
                          IN  /\ Len(lasers_') = Len(lasers_) + 1
                              /\ lasers_'[laser_index + 1] = ops'[2]
                              /\ lasers_update_' = Append(lasers_update_, TRUE)
                              /\ lasers_update_'[laser_index + 1]
                              /\ DOMAIN frame_to_laser_'
                                   = DOMAIN frame_to_laser_ \cup {ops'[2]}
                              /\ frame_to_laser_'[ops'[2]] = laser_index
                              /\ \A f \in DOMAIN frame_to_laser_ :
                                   frame_to_laser_'[f] = frame_to_laser_[f]
          /\ (ops'[1] = "camera")
               => /\ UNCHANGED <<lasers_, lasers_update_, frame_to_laser_>>
                  /\ frame_to_camera_' = ops'[2]
                  /\ marker_update'
                       = (marker_update \/ ops'[2] # frame_to_camera_)
    ]_vars

\* a scan of a laser heard for the first time has been dropped for want of
\* an odometric pose while the gate was initialized
C9_Witness ==
  /\ Has("err_odom") /\ ops[1] = "laser" /\ ops[2] = "laserB"
  /\ pf_init_scan
  /\ Len(lasers_) = 2

\* ------------------------------------------------------------------ C10
\* C10: an initial pose whose frame is neither empty nor the global frame
\* is dropped: the particle set, the pending hypothesis and both gates are
\* as they were.
C10_ForeignFramePoseDropped ==
  [][(ops'[1] = "initialpose" /\ HasIn(ops', "ignored_pose"))
       => /\ UNCHANGED <<map_, pf_, initial_pose_hyp_, pf_init_scan,
                         pf_init_cam, pf_odom_pose_, latest_odom_pose_scan,
                         latest_odom_pose_camera, m_force_update_scan,
                         m_force_update_cam, lasers_update_, marker_update,
                         resample_count_cam>>
          /\ ~HasIn(ops', "pf_init")
    ]_vars

\* an initial pose in a foreign frame has been dropped while another one is
\* pending
C10_Witness ==
  /\ ops[1] = "initialpose" /\ Has("ignored_pose")
  /\ initial_pose_hyp_.set

\* ------------------------------------------------------------------ C11
\* C11: if reading the statistics of a cluster fails during a publication
\* step, no pose and no map->odom transform is published in that cycle.
\* The loop over the clusters leaves at the failure with `break`, and the
\* pose of the best cluster read before it is published all the same.
C11_ClusterFailureSkipsPublication ==
  Has("err_cluster") =>
    /\ ~Has("pose")
    /\ ~Has("tf")
    /\ ~Has("tf_at_stamp")

\* a cluster of positive weight was read, the next one could not be read
C11_Witness ==
  /\ Has("err_cluster")
  /\ hyps.read >= 1
  /\ hyps.read < Len(hyps.weights)
  /\ Has("pose")

\* ------------------------------------------------------------------ C12
\* the handling of a map message, which calls updatePoseFromServer
MapStep == steps' = steps + 1 /\ ops'[1] = "map"
IsNaN(name) == name \in DOMAIN param_server /\ param_server[name].nan

\* C12: when a field of the initial pose or of its covariance is NaN on
\* the parameter server, the field keeps the value it held before the read.
\* updatePoseFromServer first resets all six fields, so what a NaN leaves
\* is the built-in value, whatever the field held before the call.
C12_NaNKeepsPreviousValue ==
  [][MapStep =>
       \A i \in 1..3 :
         /\ IsNaN(PoseParams[i]) => init_pose_'[i] = init_pose_[i]
         /\ IsNaN(CovParams[i]) => init_cov_'[i] = init_cov_[i]
    ]_vars

\* C12, as the code has it: after every updatePoseFromServer each field
\* holds the value of its own parameter when that is set and is a number,
\* and its built-in value (0, 0.5 * 0.5, (pi/12)^2) when the parameter is
\* NaN or not set, whatever the other parameters are.
C12_NaNFallsBackToBuiltIn ==
  [][MapStep =>
       \A i \in 1..3 :
         /\ init_pose_'[i] =
              IF PoseParams[i] \in DOMAIN param_server /\ ~IsNaN(PoseParams[i])
              THEN param_server[PoseParams[i]].v ELSE ZeroPose[i]
         /\ init_cov_'[i] =
              IF CovParams[i] \in DOMAIN param_server /\ ~IsNaN(CovParams[i])
              THEN param_server[CovParams[i]].v ELSE DefaultCov[i]
    ]_vars

\* a second map message has been handled with initial_pose_x NaN and
\* initial_cov_aa a number on the server
C12_Witness ==
  /\ ops[1] = "map"
  /\ steps >= 2
  /\ IsNaN("initial_pose_x")
  /\ init_pose_[1] = 0
  /\ "initial_cov_aa" \in DOMAIN param_server
  /\ ~IsNaN("initial_cov_aa")
  /\ init_cov_[3] = param_server["initial_cov_aa"].v
  /\ init_cov_[3] # DefaultCov[3]

\* ------------------------------------------------------------------ C13
Positive(w, n) == \E i \in 1..n : w[i] > 0
Heaviest(w, n, i) == i \in 1..n /\ \A j \in 1..n : w[j] <= w[i]
Broadcast(o) == HasIn(o, "tf") \/ HasIn(o, "tf_at_stamp")

C14_TieGoesToLowestId ==
  Has("pose") =>
    \A j \in 1..Len(hyps.weights) :
      hyps.weights[j] >= hyps.weights[last_published_pose.hyp + 1]
        => j >= last_published_pose.hyp + 1

\* two clusters of equal weight have been read on the camera path
C14_Witness ==
  /\ ops[1] = "camera"
  /\ Has("pose")
  /\ hyps = [weights |-> <<1, 1>>, read |-> 2]
  /\ last_published_pose.hyp = 0

\* ------------------------------------------------------------------ C15
Published(o) == Cardinality({i \in DOMAIN o : o[i] = "pose"})

NoUpdateCycle ==
  /\ steps' = steps + 1
  /\ ops'[1] \in {"laser", "camera"}
  /\ map_ # 0
  /\ GotPose(ops')
  /\ ~HasIn(ops', "score")
  /\ ~HasIn(ops', "obs_empty")
  /\ ~HasIn(ops', "err_angles")

\* the map->odom transform of the correction c with the stamp t
MapToOdom(c, t) ==
  [transform |-> [inverse |-> TRUE, of |-> c], stamp |-> t,
   frame_id |-> "map", child_frame_id |-> "odom"]

\* C16: on a cycle in which no update fired, if a valid correction exists
\* and transforms are broadcast, the stored map->odom correction is
\* broadcast again unchanged, stamped with the timestamp of the observation
\* plus transform_tolerance, and the stored correction, last_published_pose
\* and the particle filter are not modified.
C16_RepublishesStoredCorrection ==
  [][NoUpdateCycle /\ latest_tf_valid_ /\ tf_broadcast_ =>
       /\ \E i \in DOMAIN tfb_' :
            tfb_'[i] = MapToOdom(latest_tf_, steps' + transform_tolerance_)
       /\ \A i \in DOMAIN tfb_' :
            tfb_'[i].stamp = steps' + transform_tolerance_
       /\ ~HasIn(ops', "publication")
       /\ latest_tf_' = latest_tf_
       /\ latest_tf_valid_'
       /\ last_published_pose' = last_published_pose
       /\ pf_' = pf_
    ]_vars

\* a laser cycle without update has broadcast the stored correction again
C16_Witness ==
  /\ ops[1] = "laser"
  /\ GotPose(ops)
  /\ ~Has("score")
  /\ ~Has("publication")
  /\ latest_tf_valid_
  /\ tfb_ = <<MapToOdom(latest_tf_, steps + transform_tolerance_)>>

\* ------------------------------------------------------------------ C17
\* C17: every map->odom transform that is broadcast, after an update or as
\* a republication, on the laser or on the camera path, is stamped with
\* the timestamp of the observation plus transform_tolerance.  After an
\* update the camera path computes that expiry and then stamps the
\* transform with the timestamp of the detection itself.
C17_BroadcastStampedWithTolerance ==
  \A i \in DOMAIN tfb_ :
    tfb_[i].frame_id = "map" /\ tfb_[i].child_frame_id = "odom"
      => tfb_[i].stamp = steps + transform_tolerance_

\* a camera cycle has published a pose and broadcast its map->odom
\* transform with the stamp of the detection
C17_Witness ==
  /\ ops[1] = "camera"
  /\ Has("pose")
  /\ \E i \in DOMAIN tfb_ : tfb_[i] = MapToOdom(latest_tf_, steps)

\* ------------------------------------------------------------------ C18
\* C18: the published pose carries the covariance of the best hypothesis
\* it reports.  Both paths copy the covariance of the whole sample set,
\* set->cov, and leave the covariance of the cluster aside.
C18_CovarianceOfBestHypothesis ==
  Has("pose") =>
    \A i, j \in 0..5 :
      last_published_pose.covariance[6 * i + j] =
        IF i < 2 /\ j < 2
        THEN HypCov(pf_, last_published_pose.hyp)[i][j]
        ELSE IF i = 5 /\ j = 5
             THEN HypCov(pf_, last_published_pose.hyp)[2][2]
             ELSE 0

\* C18, as the code has it: the published pose carries the covariance of
\* the current sample set as a whole: the 6x6 entries [0..1][0..1] are the
\* x/y block and entry [5][5] is the yaw variance of the 3x3 covariance of
\* the set, and every other entry is zero.
C18_CovarianceOfSampleSet ==
  Has("pose") =>
    \A i, j \in 0..5 :
      last_published_pose.covariance[6 * i + j] =
        IF i < 2 /\ j < 2
        THEN SetCov(pf_)[i][j]
        ELSE IF i = 5 /\ j = 5
             THEN SetCov(pf_)[2][2]
             ELSE 0

\* a pose has been published after a resampling that flipped the sets
C18_Witness ==
  /\ Has("pose")
  /\ pf_.current_set = 1
  /\ last_published_pose.covariance[6 * 0 + 1] = SetCov(pf_)[0][1]
  /\ last_published_pose.covariance[6 * 5 + 5] = SetCov(pf_)[2][2]

\* ------------------------------------------------------------------ C19
\* C19: the set-map service is atomic: no other callback runs between the
\* replacement of the map and the handling of the initial pose of the
\* request, so no observation is scored against the new map before the
\* request's initial pose has been applied.  A request whose initial pose
\* is not in the global frame has its pose dropped: it is never applied,
\* and the next observation is scored against the new map without it.
C19_SetMapAtomicAndPoseApplied ==
  [][/\ set_map_req.set => ops'[1] = "setmap"
     /\ ops[1] = "setmap" /\ HasIn(ops', "score") => ~Has("ignored_pose")
    ]_vars

\* C19, as the code has it: between the replacement of the map and the
\* handling of the request's initial pose the spinner serves no other
\* callback, and handling the pose either applies it (the filter is
\* initialized at the requested pose on the new map, with both gates
\* uninitialized) or, for a pose that is not in the global frame, drops it.
C19_SetMapAtomic ==
  [][set_map_req.set =>
       /\ ops[1] = "setmap"
       /\ ops'[1] = "setmap"
       /\ ~set_map_req'.set
       /\ map_' = map_
       /\ IF set_map_req.frame_id \in {"", "map"}
          THEN /\ \E tx \in TxOdoms \cup {ZeroPose} :
                    pf_' = pf_init(ComposePose(set_map_req.mean, tx),
                                   Covariance3(set_map_req.covariance))
               /\ ~pf_init_scan' /\ ~pf_init_cam'
               /\ initial_pose_hyp_' = NoHyp
          ELSE /\ HasIn(ops', "ignored_pose")
               /\ pf_' = pf_
    ]_vars

\* a set-map request has replaced the map and applied its initial pose
C19_Witness ==
  /\ ops[1] = "setmap"
  /\ ~set_map_req.set
  /\ ~Has("ignored_pose")
  /\ pf_ = pf_init(<<1, 1, 4>>, Covariance3(MsgCovariance))
  /\ steps >= 2

\* ------------------------------------------------------------------ C20
\* a step that runs handleMapMessage: a map message, or the first call of
\* the set-map service
MapReplaced ==
  \/ ops'[1] = "map" /\ steps' = steps + 1
  \/ ops'[1] = "setmap" /\ set_map_req'.set /\ ~set_map_req.set

\* C20: after every map replacement the old map, filter and sensor models
\* have been destroyed and a new map, particle filter, odometry model,
\* laser model and marker model exist; the free-cell index is rebuilt from
\* the new map, the registry of per-frame laser objects is empty, and both
\* sensor gates are uninitialized.
C20_MapReplacementRebuilds ==
  [][MapReplaced =>
       /\ map_ # 0 => HasIn(ops', "map_free")
       /\ pf_.alloc => HasIn(ops', "pf_free")
       /\ HasIn(ops', "delete_odom")
       /\ HasIn(ops', "delete_laser")
       /\ HasIn(ops', "delete_marker")
       /\ BeforeIn(ops', "delete_marker", "pf_init")
       /\ map_' # 0
       /\ pf_'.alloc /\ pf_'.init = "gauss" /\ pf_'.stats = "fresh"
       /\ odom_' /\ laser_' /\ marker_'
       /\ free_space_indices' = FreeCells(convertMap(OccupancyGrid(map_')))
       /\ lasers_' = <<>> /\ lasers_update_' = <<>>
       /\ frame_to_laser_' = <<>>
       /\ ~pf_init_scan' /\ ~pf_init_cam'
    ]_vars

\* a map has replaced the one on which a laser had been registered
C20_Witness ==
  /\ ops[1] = "map"
  /\ Has("map_free")
  /\ Has("pf_free")
  /\ steps >= 2
  /\ lasers_ = <<>>
  /\ free_space_indices = <<<<0, 0>>, <<1, 1>>>>


\* ------------------------------------------------------------------ C21
\* an initial pose on the topic has been handled and not dropped, with a
\* map present
InitialPoseHandled ==
  /\ ops'[1] = "initialpose" /\ steps' = steps + 1
  /\ ~HasIn(ops', "ignored_pose")
  /\ map_ # 0

\* the filter is a fresh Gaussian set around the message's pose advanced by
\* `tx`, with the 3x3 covariance taken from the message: the x/y block from
\* entries [0..1][0..1], the yaw variance from entry [5][5], the rest zero
ReinitializedAt(tx) ==
  /\ \E pose_old \in InitMeans :
       /\ pf_'.mean = ComposePose(pose_old, tx)
       /\ pf_' = pf_init(pf_'.mean, pf_'.cov)
  /\ \A i \in 0..2 : \A j \in 0..2 :
       At(pf_'.cov, i, j) =
         IF i < 2 /\ j < 2 THEN MsgCovariance[6 * i + j]
         ELSE IF i = 2 /\ j = 2 THEN MsgCovariance[6 * 5 + 5]
         ELSE 0
  /\ ~pf_init_scan' /\ ~pf_init_cam'

\* C21: set initial pose with a map present re-initializes the filter from
\* a Gaussian whose mean is the message's (x, y, yaw) advanced by the
\* intervening odometry and whose 3x3 covariance takes its x/y block from
\* the message's entries [0..1][0..1] and its yaw variance from entry
\* [5][5], all other entries zero; afterwards both gates are uninitialized.
C21_InitialPoseAdvancedByOdometry ==
  [][InitialPoseHandled =>
       ReinitializedAt(IF HasIn(ops', "base_moved") THEN BaseMotion
                       ELSE ZeroPose)
    ]_vars

\* C21, as the code has it: the mean is advanced by the intervening
\* odometry when tf_ can answer for it; when that lookup fails the mean is
\* the message's pose as it came, however the base has moved since.
C21_InitialPoseAdvancedWhenLookedUp ==
  [][InitialPoseHandled =>
       ReinitializedAt(IF HasIn(ops', "base_moved") /\ rare' = rare
                       THEN BaseMotion ELSE ZeroPose)
    ]_vars

\* an initial pose stamped before the base moved has re-initialized the
\* filter at the advanced pose, with the covariance of the message
C21_Witness ==
  /\ ops[1] = "initialpose" /\ Has("base_moved") /\ Has("pf_init")
  /\ map_ # 0
  /\ pf_.init = "gauss"
  /\ pf_.mean = <<1, 1, 4>>
  /\ pf_.cov = <<<<200, 201, 0>>, <<206, 207, 0>>, <<0, 0, 235>>>>
  /\ ~pf_init_scan /\ ~pf_init_cam


\* ------------------------------------------------------------------ C22
\* the global localization service has been served
GlobalLocalizationServed == ops'[1] = "globalloc" /\ steps' = steps + 1

\* C22: global localization with a map present re-initializes the particle
\* set from the uniform free-cell generator and resets both gates, so that
\* the next observation of each sensor that reaches its gate seeds its
\* last-update pose and integrates no motion; with no map it changes
\* nothing, and it reports success either way.
C22_GlobalLocalization ==
  [][/\ GlobalLocalizationServed =>
          /\ HasIn(ops', "return_true")
          /\ IF map_ # 0
             THEN /\ pf_' = pf_init_model(pf_)
                  /\ pf_'.init = "uniform"
                  /\ ~pf_init_scan' /\ ~pf_init_cam'
                  /\ map_' = map_
                  /\ free_space_indices' = free_space_indices
             ELSE /\ Len(ops') = 2
                  /\ UNCHANGED <<map_, pf_, pf_init_scan, pf_init_cam,
                                 pf_odom_pose_, latest_odom_pose_,
                                 latest_odom_pose_scan,
                                 latest_odom_pose_camera, initial_pose_hyp_,
                                 m_force_update_scan, m_force_update_cam,
                                 lasers_update_, marker_update,
                                 free_space_indices, last_published_pose,
                                 latest_tf_, latest_tf_valid_>>
     /\ (ops'[1] = "laser" /\ steps' = steps + 1 /\ ~pf_init_scan
           /\ (HasIn(ops', "seed") \/ HasIn(ops', "motion"))) =>
          /\ pf_init_scan' /\ ~HasIn(ops', "motion")
          /\ pf_'.moved = pf_.moved
          /\ \E pose \in Poses : /\ latest_odom_pose_scan' = pose
                                 /\ pf_odom_pose_' = pose
     /\ (ops'[1] = "camera" /\ steps' = steps + 1 /\ ~pf_init_cam
           /\ (HasIn(ops', "seed") \/ HasIn(ops', "motion"))) =>
          /\ pf_init_cam' /\ ~HasIn(ops', "motion")
          /\ pf_'.moved = pf_.moved
          /\ \E pose \in Poses : /\ latest_odom_pose_camera' = pose
                                 /\ pf_odom_pose_' = pose
    ]_vars

\* after a global localization on a map the laser has seeded its gate on a
\* uniform set, away from the pose of the last update
C22_Witness ==
  /\ ops[1] = "laser" /\ Has("seed") /\ ~Has("motion")
  /\ pf_.init = "uniform"
  /\ pf_init_scan /\ ~pf_init_cam
  /\ latest_odom_pose_scan # ZeroPose


\* ------------------------------------------------------------------ C23
\* thread t has just read or written a member of the node
Accessed(t) ==
  /\ AtStep(t, {"read", "write"})
  /\ threads'[t] = Tail(threads[t])

\* the accesses the callbacks make outside the scope of the lock: the
\* map_ == NULL test at the head of the sensor and global localization
\* callbacks, first_map_received_ around handleMapMessage, and the two
\* flags of the no-motion update
OutsideLock ==
  {R("map_"), R("first_map_received_"), W("first_map_received_"),
   W("m_force_update_scan"), W("m_force_update_cam")}

C24_LockReentrant ==
  /\ \A t \in Spinners :
       AtStep(t, {"lock"}) /\ configuration_mutex_.owner = t => MayLock(t)
  /\ (\E t \in Spinners : threads[t] # <<>>) =>
       \E t \in Spinners :
         threads[t] # <<>> /\ (AtStep(t, {"lock"}) => MayLock(t))
  /\ \A t \in Spinners :
       /\ Depth(threads[t]) >= 0
       /\ Depth(threads[t]) > 0 =>
            /\ configuration_mutex_.owner = t
            /\ configuration_mutex_.count = Depth(threads[t])
       /\ Depth(threads[t]) = 0 => configuration_mutex_.owner # t
  /\ configuration_mutex_.owner = 0 <=> configuration_mutex_.count = 0

\* the constructor's thread is inside applyInitialPose inside
\* handleMapMessage inside requestMap: four scopes of the lock deep
C24_Witness ==
  /\ configuration_mutex_ = [owner |-> 1, count |-> 4]
  /\ threads[1] = Tail(applyInitialPoseSteps) \o <<Unlock, Unlock, Unlock,
                                                    SpinOnce>>
  /\ ~Spinning


\* ------------------------------------------------------------------ C25
\* C25: on SIGINT the last pose and its covariance are written to the
\* parameter store before the node shuts down.
C25_SigintSavesPose ==
  [][ops'[1] = "sigint" /\ steps' = steps + 1 =>
       /\ HasIn(ops', "save_pose")
       /\ process' = "shutdown"
    ]_lockvars

\* C25, as the code has it: the handler goes through amcl_node_ptr, which
\* holds no node, and the process ends there without saving anything
C25_SigintEndsProcess ==
  [][ops'[1] = "sigint" /\ steps' = steps + 1 =>
       /\ ~HasIn(ops', "save_pose")
       /\ process' \in NullDereference
       /\ param_server' = param_server
    ]_lockvars

\* the signal arrived after a pose had been published and a correction
\* stored
C25_Witness ==
  /\ ops[1] = "sigint"
  /\ process \in NullDereference
  /\ last_published_pose.valid /\ latest_tf_valid_


\* ------------------------------------------------------------------ C26
\* a sensor callback has run to its publication step, where it either
\* publishes (after a resampling or under a forced publication) or
\* republishes the stored correction
ObservationCycle ==
  /\ ops'[1] \in {"laser", "camera"} /\ steps' = steps + 1
  /\ HasIn(ops', "publication") \/ HasIn(ops', "tf")

\* at least save_pose_period has gone by since the pose was last saved
SaveDue == StartTime + steps' - save_pose_last_time >= save_pose_period

\* C26: while observations keep arriving and a valid correction exists,
\* the pose is persisted to the parameter store on any observation cycle
\* at which at least save_pose_period has elapsed since the last save,
\* whether or not that cycle performed a filter update.
C26_PoseSavedWheneverDue ==
  [][ObservationCycle /\ latest_tf_valid_ /\ SaveDue
       => HasIn(ops', "save_pose")
    ]_vars

\* C26, as the code has it: the pose is saved only on a cycle that
\* republishes the stored correction, that is one without resampling and
\* without forced publication; on such a cycle it is saved exactly when
\* the period has elapsed, and a cycle that publishes a new pose never
\* saves, however long ago the last save was.
C26_PoseSavedOnRepublication ==
  [][ObservationCycle =>
       /\ HasIn(ops', "save_pose") <=>
            /\ ~HasIn(ops', "publication")
            /\ latest_tf_valid_
            /\ SaveDue
       /\ save_pose_last_time' =
            IF HasIn(ops', "save_pose") THEN StartTime + steps'
            ELSE save_pose_last_time
    ]_vars

\* a cycle has republished the correction and saved the pose, a period
\* after the node started
C26_Witness ==
  /\ ops[1] \in {"laser", "camera"}
  /\ Has("save_pose") /\ Has("tf") /\ ~Has("publication")
  /\ save_pose_last_time = StartTime + steps
  /\ latest_tf_valid_


\* ------------------------------------------------------------------ C27
\* C27: map conversion maps every occupancy byte to a cell state by the
\* rule 0 -> free (-1), 100 -> occupied (+1), any other value -> unknown
\* (0), keeping the width, height, resolution and cell order of the grid.
C27_ConvertMap ==
  call.fn = "convertMap" /\ call.done =>
    /\ call.out.size_x = call.in.width
    /\ call.out.size_y = call.in.height
    /\ call.out.scale = call.in.resolution
    /\ DOMAIN call.out.cells = DOMAIN call.in.data
    /\ \A k \in DOMAIN call.in.data :
         call.out.cells[k] = CASE call.in.data[k] = 0 -> -1
                               [] call.in.data[k] = 100 -> 1
                               [] OTHER -> 0

\* a grid of two columns and two rows with a free, an occupied, an unknown
\* and a half-occupied cell has been converted
C27_Witness ==
  /\ call.fn = "convertMap" /\ call.done
  /\ call.in.width = 2 /\ call.in.height = 2
  /\ call.in.data = [k \in 0..3 |-> <<0, 100, -1, 50>>[k + 1]]
  /\ call.out.cells = [k \in 0..3 |-> <<-1, 1, 0, 0>>[k + 1]]

\* ------------------------------------------------------------------ C28
\* C28: after a map is built the free-cell index holds the (i, j) of
\* exactly the cells whose state is free, each exactly once and no other
\* cell, and it is rebuilt from scratch on every map replacement, so it
\* never holds cells of a previous map.
C28_FreeCellIndex ==
  call.fn = "free_space_indices" /\ call.done =>
    LET msg == call.in[2]
        index == call.out
    IN  /\ \A n, m \in DOMAIN index : index[n] = index[m] => n = m
        /\ {index[n] : n \in DOMAIN index} =
             {c \in (0..(msg.width - 1)) \X (0..(msg.height - 1)) :
                msg.data[c[1] + c[2] * msg.width] = 0}

\* the index of a map of two free cells in a row has been built over an
\* index that held a cell of a previous map
C28_Witness ==
  /\ call.fn = "free_space_indices" /\ call.done
  /\ call.in[1] = <<<<1, 0>>, <<0, 0>>>>
  /\ call.in[2].width = 1 /\ call.in[2].height = 2
  /\ call.out = <<<<0, 0>>, <<0, 1>>>>

\* ------------------------------------------------------------------ C29
\* the map of the call has no free cell
NoFreeCell == \A k \in DOMAIN call.in[2].data : call.in[2].data[k] # 0

\* C29: if the current map has no free cell, uniform initialization fails
\* with a map-error signal instead of producing a pose or reading outside
\* the index.
C29_EmptyIndexFails ==
  call.fn = "uniformPoseGenerator" /\ call.done /\ NoFreeCell =>
    call.out.kind = "map_error"

\* C29, as the code has it: on a map without free cells the generator
\* reads element 0 of the empty index; the process faults, or a pose comes
\* back at whatever cell the storage of the vector still holds
C29_EmptyIndexReadsBeyond ==
  call.fn = "uniformPoseGenerator" /\ call.done /\ NoFreeCell =>
    \/ call.out.kind = "segfault" /\ call.in[1] = <<>>
    \/ /\ call.out.kind = "pose"
       /\ call.in[1] # <<>> /\ call.out.free_point = call.in[1][1]

\* on a map of one occupied cell the generator has returned a pose at
\* cell (1, 0), which the index of the previous map had left behind
C29_Witness ==
  /\ call.fn = "uniformPoseGenerator" /\ call.done /\ NoFreeCell
  /\ call.in[2].width = 1 /\ call.in[2].height = 1
  /\ call.out.kind = "pose" /\ call.out.free_point = <<1, 0>>

\* ------------------------------------------------------------------ C30
\* C30: for all angles a and b, angle_diff(a, b) lies in the half-open
\* interval (-pi, pi], including when a and b differ by exactly pi.
C30_AngleDiffHalfOpen ==
  call.fn = "angle_diff" /\ call.done =>
    -AngUnits < call.out.d /\ call.out.d <= AngUnits

\* C30, as the code has it: angle_diff(a, b) is a - b up to whole turns
\* and lies in the closed interval [-pi, pi]; when the normalized angles
\* differ by exactly pi it is -pi if a is the larger and +pi otherwise, and
\* angle_diff(b, a) is its negative.
C30_AngleDiffClosed ==
  call.fn = "angle_diff" /\ call.done =>
    LET a == call.out.a
        b == call.out.b
        d == call.out.d
    IN  /\ -AngUnits <= d /\ d <= AngUnits
        /\ (d - (call.in[1] - call.in[2])) % (2 * AngUnits) = 0
        /\ d = -AngUnits <=> a - b = AngUnits
        /\ d = AngUnits <=> a - b = -AngUnits
        /\ angle_diff_normalized(b, a) = -d

\* angle_diff(pi, 0) has returned -pi
C30_Witness ==
  /\ call.fn = "angle_diff" /\ call.done
  /\ call.in = <<AngUnits, 0>>
  /\ call.out = [a |-> AngUnits, b |-> 0, d |-> -AngUnits]


\* ------------------------------------------------------------------ C31
\* C31: for all angles a and b, angle_diff(a, b) = -angle_diff(b, a): with
\* the arguments as normalize left them, and with the arguments as given.
C31_AngleDiffAntisymmetric ==
  call.fn = "angle_diff" /\ call.done =>
    /\ angle_diff_normalized(call.out.b, call.out.a) = -call.out.d
    /\ angle_diff(call.in[2], call.in[1])
         = -angle_diff(call.in[1], call.in[2])

\* angle_diff(0, pi) has returned pi, the negative of angle_diff(pi, 0)
C31_Witness ==
  /\ call.fn = "angle_diff" /\ call.done
  /\ call.in = <<0, AngUnits>>
  /\ call.out = [a |-> 0, b |-> AngUnits, d |-> AngUnits]
  /\ angle_diff_normalized(AngUnits, 0) = -AngUnits


\* ------------------------------------------------------------------ C32
\* the state of the camera gate, and that of the laser gate
CameraGateState ==
  <<latest_odom_pose_camera, pf_init_cam, m_force_update_cam, marker_update,
    resample_count_cam>>
LaserGateState ==
  <<latest_odom_pose_scan, pf_init_scan, m_force_update_scan, lasers_update_>>

\* C32: the two sensor gates are independent: a laser cycle never changes
\* the camera gate's last-update pose, initialization flag, force flag,
\* pending-update flag or resample counter, and a camera cycle never changes
\* the last-update pose, initialization flag, force flag or pending-update
\* flags of the laser gate; of what the gates read, only the particle filter
\* and the global filter-update pose are written by both.
C32_GatesIndependent ==
  [][/\ ops'[1] = "laser" => UNCHANGED CameraGateState
     /\ ops'[1] = "camera" => UNCHANGED LaserGateState]_vars

\* a camera cycle has seeded its gate and scored at a pose other than the
\* one the laser gate holds from its own update; the filter-update pose is
\* the camera's
C32_Witness ==
  /\ ops[1] = "camera" /\ Has("seed") /\ Has("score")
  /\ pf_init_scan /\ pf_init_cam
  /\ latest_odom_pose_scan # latest_odom_pose_camera
  /\ pf_odom_pose_ = latest_odom_pose_camera
  /\ lasers_update_ = <<FALSE>>
  /\ ~marker_update


\* ------------------------------------------------------------------ C33
\* the hypothesis an initial pose that is not dropped leaves: the mean of
\* the message advanced by what tf_ answered, the covariance of the message
PoseHyps ==
  {[set |-> TRUE, mean |-> ComposePose(pose_old, tx),
    cov |-> Covariance3(MsgCovariance)] :
     pose_old \in InitMeans, tx \in TxOdoms}

\* the step handles an initial pose and does not drop it for its frame
PoseAccepted ==
  /\ \/ ops'[1] = "initialpose"
     \/ ops'[1] = "setmap" /\ set_map_req.set
  /\ ~HasIn(ops', "ignored_pose")

\* the step handles a map: mapReceived, or setMapCallback up to its map
MapArrives ==
  \/ ops'[1] = "map"
  \/ ops'[1] = "setmap" /\ ~set_map_req.set

\* how often a callback has initialized the filter from a mean and a
\* covariance, and how often the step has: the second step of
\* setMapCallback carries on the log of the first
Initialized(o) == Cardinality({i \in DOMAIN o : o[i] = "pf_init"})
InitializedNow ==
  Initialized(ops') - (IF set_map_req.set THEN Initialized(ops) ELSE 0)

\* C33: an initial pose received (and not dropped for its frame) while no
\* map exists is stored as the pending hypothesis without touching the
\* filter, replacing any hypothesis pending before it; the pending hypothesis
\* stays as it is until the next map arrives, is applied exactly once by that
\* arrival, and none is pending afterwards; an initial pose received with a
\* map present is applied immediately and leaves nothing pending.
C33_PendingInitialPose ==
  [][/\ PoseAccepted /\ map_ = 0 =>
          /\ initial_pose_hyp_' \in PoseHyps
          /\ pf_' = pf_ /\ InitializedNow = 0
     /\ PoseAccepted /\ map_ # 0 =>
          /\ \E h \in PoseHyps : pf_' = pf_init(h.mean, h.cov)
          /\ InitializedNow = 1
          /\ ~initial_pose_hyp_'.set
     /\ MapArrives /\ initial_pose_hyp_.set =>
          /\ pf_' = pf_init(initial_pose_hyp_.mean, initial_pose_hyp_.cov)
          /\ InitializedNow = 2
          /\ ~initial_pose_hyp_'.set
     /\ MapArrives /\ ~initial_pose_hyp_.set =>
          /\ InitializedNow = 1
          /\ ~initial_pose_hyp_'.set
     /\ ~PoseAccepted /\ ~MapArrives =>
          /\ initial_pose_hyp_' = initial_pose_hyp_
          /\ InitializedNow = IF ops'[1] = "reconfigure" THEN 1 ELSE 0
     /\ map_' # 0 => ~initial_pose_hyp_'.set
     /\ map_ # 0 => map_' # 0]_vars

\* the first map has arrived and has applied the hypothesis that was
\* pending, the pose advanced by the motion of the base; none is pending
C33_Witness ==
  /\ ops[1] = "map" /\ Initialized(ops) = 2
  /\ pf_ = pf_init(ComposePose(<<1, 0, 3>>, BaseMotion),
                   Covariance3(MsgCovariance))
  /\ ~initial_pose_hyp_.set
  /\ steps >= 2


\* ------------------------------------------------------------------ C34
\* the step is a laser or a camera cycle
SensorStep == ops'[1] \in {"laser", "camera"}

\* a gate has been seeded since the filter was last (re)initialized
Seeded == pf_init_scan \/ pf_init_cam

\* pose p less pose q, the angle up to whole turns
SamePose(p, q) ==
  p[1] = q[1] /\ p[2] = q[2] /\ (p[3] - q[3]) % (2 * AngUnits) = 0
Less(p, q) == <<p[1] - q[1], p[2] - q[2], p[3] - q[3]>>

\* what the step has passed to the motion model equals the advance of the
\* odometric pose of the latest filter update
IntegratedOnce ==
  SamePose(Less(pf_'.moved, pf_.moved), Less(pf_odom_pose_', pf_odom_pose_))

\* C34: between two consecutive filter (re)initializations every odometric
\* displacement is integrated into the particles exactly once: the first
\* observation after the (re)initialization integrates nothing, and every
\* later laser or camera cycle passes to the motion model exactly the
\* advance of the odometric pose of the latest filter update, so that the
\* deltas sum to that pose less the pose of the first observation, whatever
\* the interleaving of the sensors and whichever transform lookup fails.
C34_DisplacementIntegratedOnce ==
  [][SensorStep =>
       /\ ~Seeded => pf_'.moved = pf_.moved
       /\ Seeded => IntegratedOnce]_vars

\* C34, as the code has it: the deltas account for the advance of the
\* filter-update pose in every cycle but two: a cycle that seeds its gate
\* after the other sensor seeded the filter-update pose moves that pose to
\* its own without integrating anything, and a laser cycle whose scan angles
\* cannot be transformed integrates the displacement and leaves the pose
\* where it was, so that the next update integrates it again.
C34_DisplacementIntegratedUnlessSeededOrFailed ==
  [][SensorStep =>
       /\ HasIn(ops', "seed") =>
            /\ pf_'.moved = pf_.moved
            /\ pf_odom_pose_' = latest_odom_pose_'
       /\ HasIn(ops', "err_angles") /\ ~HasIn(ops', "seed") =>
            /\ pf_odom_pose_' = pf_odom_pose_
            /\ HasIn(ops', "motion") =>
                 SamePose(Less(pf_'.moved, pf_.moved),
                          PoseDelta(latest_odom_pose_', pf_odom_pose_))
       /\ ~HasIn(ops', "seed") /\ ~HasIn(ops', "err_angles") =>
            IntegratedOnce]_vars

\* the camera has seeded its gate away from where the laser seeded the
\* filter: the filter-update pose has moved and no motion was integrated
C34_Witness ==
  /\ ops[1] = "camera" /\ Has("seed")
  /\ pf_init_scan
  /\ pf_.moved = ZeroPose
  /\ pf_odom_pose_ # latest_odom_pose_scan

\* a laser cycle has integrated a displacement and returned on the failed
\* transform of its angles, the filter-update pose left behind
C34_WitnessFailed ==
  /\ ops[1] = "laser" /\ Has("motion") /\ Has("err_angles")
  /\ pf_.moved # ZeroPose
  /\ pf_odom_pose_ = latest_odom_pose_scan
  /\ pf_odom_pose_ # latest_odom_pose_


\* ------------------------------------------------------------------ C35
\* every frame maps to the index of the laser object that was set up for it
FramesIndexed ==
  \A f \in DOMAIN frame_to_laser_ :
    /\ frame_to_laser_[f] + 1 \in DOMAIN lasers_
    /\ lasers_[frame_to_laser_[f] + 1] = f

\* C35: after any sequence of scans, transform failures and map
\* replacements, lasers_, lasers_update_ and frame_to_laser_ have the same
\* size and every frame maps to the index of its laser object.
C35_LaserTablesAligned ==
  /\ Len(lasers_) = Len(lasers_update_)
  /\ Len(lasers_) = Cardinality(DOMAIN frame_to_laser_)
  /\ FramesIndexed

\* C35, as the code has it: lasers_ and lasers_update_ have the same size,
\* which exceeds that of frame_to_laser_ by at most the number of failed
\* lookups of a laser's pose since the last map; the frames map to the
\* indexes 0, 1, ... in the order in which they were registered, each to an
\* object that was set up for it; a map replacement empties all three.
C35_LaserTablesAlignedUpToFailures ==
  /\ Len(lasers_) = Len(lasers_update_)
  /\ Len(lasers_) >= Cardinality(DOMAIN frame_to_laser_)
  /\ Len(lasers_) - Cardinality(DOMAIN frame_to_laser_) <= rare
  /\ FramesIndexed
  /\ {frame_to_laser_[f] : f \in DOMAIN frame_to_laser_}
       = 0..(Cardinality(DOMAIN frame_to_laser_) - 1)
  /\ ops[1] \in {"map", "setmap"} =>
       lasers_ = <<>> /\ lasers_update_ = <<>> /\ frame_to_laser_ = <<>>

\* the pose of a laser could not be looked up when its frame was first
\* heard and could when it was heard again: two objects, one frame
C35_Witness ==
  /\ ops[1] = "laser" /\ ~Has("err_laser_tf")
  /\ Len(lasers_) = 2 /\ Len(lasers_update_) = 2
  /\ Cardinality(DOMAIN frame_to_laser_) = 1
  /\ lasers_[1] \in DOMAIN frame_to_laser_
  /\ lasers_[2] = NoFrame


\* ------------------------------------------------------------------ C36
\* the map, the filter and the three sensor models exist
AllExist == map_ # 0 /\ pf_.alloc /\ odom_ /\ laser_ /\ marker_

\* C36: whenever a laser or camera cycle proceeds past its map check and
\* holds the lock, the map, the particle filter, the odometry model, the
\* laser model and the marker model all exist, when the cycle takes the lock
\* and when it releases it, for every interleaving of observations with map
\* replacement, set-map, initial pose, global localization and
\* reconfiguration.
C36_ModelsExistPastMapCheck ==
  [][SensorStep /\ ~NoMap(Node) => AllExist /\ AllExist']_vars

\* a camera cycle has scored its detections on the filter and the models
\* that a reconfiguration made after the map had arrived
C36_Witness ==
  /\ ops[1] = "camera" /\ Has("score")
  /\ pf_.init = "last_published"
  /\ AllExist


\* ------------------------------------------------------------------ C37
\* the statistics were recomputed after the weights last changed
RecomputedAfterScore ==
  Before("score", "resample") \/ Before("score", "cluster_stats")

\* C37: whenever a pose is published, the cluster statistics it is read
\* from were recomputed from the current sample set after the last weight
\* change of that cycle, either by a resample or by an explicit
\* cluster-statistics pass over the current set.
C37_PublishedFromFreshStatistics ==
  Has("pose") /\ Has("score") =>
    RecomputedAfterScore /\ pf_.stats = "fresh"

\* C37, as the code has it: a pose published by a laser cycle is read from
\* statistics recomputed by the resample that follows every scoring; a pose
\* published by a camera cycle that scored is read from recomputed
\* statistics only if that cycle resampled, which it does on every
\* resample_interval_-th update; in the other camera cycles no statistics
\* pass runs and the pose is read from the statistics of before the scoring.
C37_PublishedFromFreshStatisticsIfResampled ==
  Has("pose") /\ Has("score") =>
    /\ ~Has("cluster_stats")
    /\ ops[1] = "laser" => Before("score", "resample")
    /\ Has("resample") <=> pf_.stats = "fresh"
    /\ ops[1] = "camera" =>
         (Has("resample") <=> resample_count_cam % resample_interval_ = 0)

\* a camera cycle has scored its detections, has not resampled and has
\* published a pose from the statistics the scoring left stale
C37_Witness ==
  /\ ops[1] = "camera" /\ Has("score") /\ Has("pose")
  /\ ~Has("resample") /\ ~Has("cluster_stats")
  /\ pf_.weighted /\ pf_.stats = "stale"
  /\ last_published_pose.valid


\* ------------------------------------------------------------------ C38
\* the correction that is computed from the published pose p
CorrectionOf(p) == [valid |-> TRUE, hyp |-> p.hyp]

\* C38: whenever a pose estimate is published and recorded as
\* last_published_pose in a cycle, the stored map->odom correction is updated
\* from that same estimate in the same cycle, so that after every cycle the
\* stored correction and last_published_pose derive from the same hypothesis.
C38_CorrectionFromPublishedPose ==
  /\ Has("pose") => latest_tf_valid_ /\ ~Has("err_base_tf")
  /\ last_published_pose.valid =>
       latest_tf_ = CorrectionOf(last_published_pose)

\* C38, as the code has it: a cycle that publishes a pose stores the
\* correction computed from that pose and marks it valid, unless the pose of
\* the base in the odometric frame cannot be looked up: then the pose stays
\* published and recorded, the stored correction and its validity are those
\* of before the cycle, and the cycle broadcasts no transform.
C38_CorrectionFromPublishedPoseWhenLookedUp ==
  [][HasIn(ops', "pose") =>
       /\ last_published_pose'.valid
       /\ IF HasIn(ops', "err_base_tf")
          THEN /\ latest_tf_' = latest_tf_
               /\ latest_tf_valid_' = latest_tf_valid_
               /\ tfb_' = <<>>
          ELSE /\ latest_tf_' = CorrectionOf(last_published_pose')
               /\ latest_tf_valid_']_vars

\* a cycle has published and recorded a pose and failed to look up the
\* base: no correction is stored at all
C38_Witness ==
  /\ Has("pose") /\ Has("err_base_tf")
  /\ last_published_pose.valid
  /\ ~latest_tf_valid_ /\ ~latest_tf_.valid
  /\ tfb_ = <<>>


\* ------------------------------------------------------------------ C39
\* the step computes a correction from the pose it publishes
ComputesCorrection ==
  SensorStep /\ HasIn(ops', "pose") /\ ~HasIn(ops', "err_base_tf")

\* C39: no map->odom transform is broadcast before a cycle has computed a
\* correction from a published pose: latest_tf_valid_ is false until such a
\* cycle and only such a cycle sets it, every broadcast is of a stored
\* correction, republication happens only while latest_tf_valid_ is true,
\* and once true it never returns to false, whatever callback follows: map
\* replacement, initial pose and global localization included.
C39_NoBroadcastBeforeCorrection ==
  [][/\ ~latest_tf_valid_ /\ latest_tf_valid_' => ComputesCorrection
     /\ latest_tf_valid_ => latest_tf_valid_'
     /\ tfb_' # <<>> =>
          /\ SensorStep /\ latest_tf_valid_' /\ latest_tf_'.valid
          /\ ComputesCorrection \/ latest_tf_valid_
          /\ \A i \in DOMAIN tfb_' : tfb_'[i].transform.of = latest_tf_'
     /\ SensorStep /\ ~HasIn(ops', "publication") /\ tfb_' # <<>> =>
          latest_tf_valid_ /\ latest_tf_' = latest_tf_
     /\ ~latest_tf_valid_' =>
          tfb_' = <<>> /\ ~sent_first_transform_' /\ ~latest_tf_'.valid]_vars

\* a camera cycle in which no update fired has republished, both ways, the
\* correction that an earlier cycle stored
C39_Witness ==
  /\ ops[1] = "camera" /\ ~Has("publication")
  /\ Has("tf") /\ Has("tf_inv")
  /\ latest_tf_valid_ /\ latest_tf_.valid
  /\ Len(tfb_) = 2


\* ------------------------------------------------------------------ C40
\* a camera cycle in which the update fires on an empty detection set
EmptyUpdate == ops'[1] = "camera" /\ HasIn(ops', "obs_empty")

====
